---- MODULE Spec2Model ----
(***************************************************************************)
(* A model of the pronunciation-audio cache of the Japanese add-on:        *)
(*   - the sqlite cache store (helpers/sqlite3_buddy.py): the tables meta, *)
(*     headwords and files, the connection of a Sqlite3Buddy, and the      *)
(*     transactions python's sqlite3 module opens and commits;             *)
(*   - the source manager factory (audio_manager/audio_manager.py,         *)
(*     audio.py): reconciliation, purge and removal run by background      *)
(*     operations, with their completion callbacks on the main thread.     *)
(***************************************************************************)
EXTENDS Integers, Sequences, FiniteSets, TLC

VARIABLES
    db,       \* the committed content of the database file: the three audio tables
    con,      \* per Sqlite3Buddy: is a connection open, its pending transaction
    holds,    \* per execution context: the Sqlite3Buddy of the scope it is in (0: none)
    pc,       \* per execution context: where it stands in the code
    arg,      \* per execution context: the arguments of the cache call it runs
    raised,   \* per execution context: what its last cache call raised
    pre,      \* per execution context: the rows seen when the current call began
    config,   \* the configured audio sources, in configuration order
    audio_sources, \* AudioSourceManagerFactory._audio_sources
    op,       \* the background operation in flight (QueryOp) and its progress
    log,      \* the last operation whose completion callback has run
    search,   \* the search_audio call in progress: its arguments, locals and lookups
    fetch     \* the download batch in progress: its tasks, their requests and the results

cacheVars == <<db, con, holds, pc, arg, raised, pre>>
managerVars == <<config, audio_sources, op, log, search, fetch>>
vars == <<db, con, holds, pc, arg, raised, pre, config, audio_sources, op, log, search, fetch>>

----------------------------------------------------------------------------
(* Bounds of the model. *)

\* number of files an index document lists (f1 .. fMaxFiles)
MaxFiles == 2

----------------------------------------------------------------------------
(* Values. *)

NULL == "NULL"

SourceNames == {"A", "B"}

FileNames == 1..MaxFiles

\* SourceIndex.__annotations__, in declaration order
SourceIndexKeys == <<"meta", "headwords", "files">>

EmptyTables ==
    [meta |-> {}, headwords |-> {}, files |-> {},
     pitch_accents_formatted |-> <<>>, version |-> {}]

TableNames == {"meta", "headwords", "files"}

----------------------------------------------------------------------------
(* Index documents (the json a source is loaded from).  A document is a    *)
(* function from the keys it has; a missing key is outside its DOMAIN.     *)

\* file f is read "f" in kana and has pitch number f
FileInfoOf(f, with_reading) ==
    IF with_reading
    THEN [kana_reading |-> f, pitch_number |-> f]
    ELSE [pitch_number |-> f]

\* the "files" section, in the order the document lists it; entry `bad`
\* (0: none) has no kana_reading
FilesSection(bad) ==
    [i \in 1..MaxFiles |-> <<i, FileInfoOf(i, i # bad)>>]

\* the "headwords" section: headword h lists file h and, if there is one, h+1
HeadwordsSection ==
    [h \in 1..MaxFiles |-> IF h < MaxFiles THEN <<h, h + 1>> ELSE <<h>>]

FullDoc(dict, with_name, bad) ==
    [meta |-> IF with_name THEN [name |-> dict] ELSE [year |-> 2000],
     headwords |-> HeadwordsSection,
     files |-> FilesSection(bad)]

Restrict(f, S) == [x \in S |-> f[x]]

GoodDoc == FullDoc("D", TRUE, 0)

\* documents that lack one or more of the three top-level keys
DocsMissingTopLevel ==
    {Restrict(GoodDoc, K) : K \in (SUBSET TableNames) \ {TableNames}}

\* documents with all three top-level keys that lack a key deeper down
DocsMissingDeeper ==
    {FullDoc("D", FALSE, 0)} \cup {FullDoc("D", TRUE, b) : b \in 1..MaxFiles}

Docs == {GoodDoc} \cup DocsMissingTopLevel \cup DocsMissingDeeper

NoDoc == Restrict(GoodDoc, {})

----------------------------------------------------------------------------
(* Rows and queries of the audio tables.  `t` is the content of the three  *)
(* tables as one connection sees it.                                       *)

\* a row of meta. rowid orders the rows as they were inserted (a new row gets a
\* rowid above all others); it is kept as the rank among the rows present, its
\* order being all a query can show
MetaRow(s, dict, url, rowid) ==
    [source_name |-> s, dictionary_name |-> dict, original_url |-> url, rowid |-> rowid]

HeadwordRow(s, h, f) == [source_name |-> s, headword |-> h, file_name |-> f]

FileRow(s, f, info) ==
    [source_name |-> s, file_name |-> f, kana_reading |-> info.kana_reading,
     pitch_number |-> IF "pitch_number" \in DOMAIN info THEN info.pitch_number ELSE 0]

\* the rows of source s, table by table
RowsOf(t, s) == [n \in TableNames |-> {r \in t[n] : r.source_name = s}]

NoRows == [n \in TableNames |-> {}]

search_files_in_source(t, s, h) ==
    {r.file_name : r \in {x \in t.headwords : x.source_name = s /\ x.headword = h}}

search_files(t, h) ==
    {<<r.file_name, r.source_name>> : r \in {x \in t.headwords : x.headword = h}}

\* mutant: files are told apart by file name alone
distinct_file_count_by_name(t, names) ==
    IF names = <<>> THEN 0
    ELSE Cardinality({f.file_name : f \in {x \in t.files :
                        \E i \in DOMAIN names : x.source_name = names[i]}})

\* SELECT DISTINCT f.file_name, m.dictionary_name, m.original_url
\* FROM files f INNER JOIN meta m ON f.source_name = m.source_name WHERE ...
distinct_file_count(t, names) ==
    IF names = <<>> THEN 0
    ELSE Cardinality(
        {<<f.file_name, m.dictionary_name, m.original_url>> :
            <<f, m>> \in {p \in t.files \X t.meta :
                p[1].source_name = p[2].source_name
                /\ \E i \in DOMAIN names : p[1].source_name = names[i]}})

distinct_headword_count(t, names) ==
    IF names = <<>> THEN 0
    ELSE Cardinality(
        {r.headword : r \in {x \in t.headwords :
            \E i \in DOMAIN names : x.source_name = names[i]}})

source_names(t) == {m.source_name : m \in t.meta}

\* the rows of a set of meta rows as the scan of the table yields them
RECURSIVE InRowidOrder(_)
InRowidOrder(rows) ==
    IF rows = {} THEN <<>>
    ELSE LET first == CHOOSE m \in rows : \A x \in rows : m.rowid <= x.rowid
         IN  <<first>> \o InRowidOrder(rows \ {first})

\* get_cached_sources that asks for the meta row alone
get_cached_sources_of_meta(t) ==
    LET rows == InRowidOrder(t.meta)
    IN  [i \in DOMAIN rows |-> <<rows[i].source_name, rows[i].original_url>>]

\* (name, url) of the meta rows that have a headwords row and a files row, in
\* the order of the scan of meta
get_cached_sources(t) ==
    LET rows == InRowidOrder({x \in t.meta :
                    /\ \E h \in t.headwords : h.source_name = x.source_name
                    /\ \E f \in t.files : f.source_name = x.source_name})
    IN  [i \in DOMAIN rows |-> <<rows[i].source_name, rows[i].original_url>>]

is_source_cached(t, s) ==
    \A n \in TableNames : \E r \in t[n] : r.source_name = s

get_original_url(t, s) == (CHOOSE m \in t.meta : m.source_name = s).original_url

----------------------------------------------------------------------------
(* Connections.  A Sqlite3Buddy holds at most one connection (_con).  The  *)
(* sqlite3 module opens a transaction before a DML statement run by        *)
(* cursor.execute / executemany and keeps it until commit(); the rows it   *)
(* changes are seen by that connection alone until then.  executescript    *)
(* commits what is pending and runs each statement in autocommit mode.     *)

Buddies == 1..2

Contexts == {"main", "worker"}

\* Sqlite3Buddy.__init__: self._con = None
ClosedCon == [open |-> FALSE, in_transaction |-> FALSE, work |-> EmptyTables]

can_execute(c) == c.open

\* what connection c reads when the committed content is d
View(c, d) == IF c.in_transaction THEN c.work ELSE d

\* cursor.execute / executemany of a DML statement that leaves the tables as t
cur_execute(c, d, t) ==
    [c |-> [c EXCEPT !.in_transaction = TRUE, !.work = t], d |-> d]

\* one statement of cursor.executescript that leaves the tables as t
cur_executescript(c, d, t) ==
    [c |-> [c EXCEPT !.in_transaction = FALSE, !.work = EmptyTables], d |-> t]

\* connection.commit()
con_commit(c, d) ==
    [c |-> [c EXCEPT !.in_transaction = FALSE, !.work = EmptyTables],
     d |-> IF c.in_transaction THEN c.work ELSE d]

\* sqlite lets one connection write at a time: a statement that writes waits
\* while another connection has an open write transaction
CanWrite(b) == \A b2 \in Buddies \ {b} : ~con[b2].in_transaction

\* Sqlite3Buddy.start_session: connect and prepare the tables (the CREATE ... IF
\* NOT EXISTS statements change no row)
start_session(c) == [c EXCEPT !.open = TRUE]

\* mutant: the connection is closed without a commit
end_session_without_commit(c, d) ==
    [c |-> [c EXCEPT !.open = FALSE, !.in_transaction = FALSE, !.work = EmptyTables], d |-> d]

\* Sqlite3Buddy.end_session: commit, close, self._con = None
end_session(c, d) ==
    [c |-> [con_commit(c, d).c EXCEPT !.open = FALSE], d |-> con_commit(c, d).d]

----------------------------------------------------------------------------
(* The statements of the cache operations, as functions of the tables the  *)
(* connection sees.  A result is the tables after the statement and the    *)
(* exception it raised ("none": it did not raise).                         *)

Range(f) == {f[i] : i \in DOMAIN f}

\* mutant: only the first key is looked for
raise_if_invalid_json_first_key_only(data) ==
    IF SourceIndexKeys[1] \notin DOMAIN data THEN SourceIndexKeys[1] ELSE "none"

\* the first key of SourceIndex the document lacks ("none": it has them all)
raise_if_invalid_json(data) ==
    LET missing == {i \in DOMAIN SourceIndexKeys : SourceIndexKeys[i] \notin DOMAIN data}
    IN  IF missing = {} THEN "none"
        ELSE SourceIndexKeys[CHOOSE i \in missing : \A j \in missing : i <= j]

InvalidSourceIndex(key) == "InvalidSourceIndex: missing " \o key

\* INSERT INTO meta into a table without the primary key
insert_data_meta_without_key(t, s, data) ==
    IF "name" \notin DOMAIN data.meta THEN [t |-> t, exc |-> "KeyError"]
    ELSE [t |-> [t EXCEPT !.meta = @ \cup {MetaRow(s, data.meta.name, NULL, Cardinality(@) + 1)}],
          exc |-> "none"]

\* INSERT INTO meta ... VALUES(source_name, data["meta"]["name"], ..., None, ...)
\* source_name is the primary key of meta
insert_data_meta(t, s, data) ==
    IF "name" \notin DOMAIN data.meta THEN [t |-> t, exc |-> "KeyError"]
    ELSE IF \E m \in t.meta : m.source_name = s THEN [t |-> t, exc |-> "IntegrityError"]
    ELSE [t |-> [t EXCEPT !.meta = @ \cup {MetaRow(s, data.meta.name, NULL, Cardinality(@) + 1)}],
          exc |-> "none"]

\* executemany(INSERT INTO headwords ...) over every (headword, file_name)
insert_data_headwords(t, s, data) ==
    [t |-> [t EXCEPT !.headwords = @ \cup
                {HeadwordRow(s, h, f) : <<h, f>> \in
                    {p \in (DOMAIN data.headwords) \X FileNames :
                        p[2] \in Range(data.headwords[p[1]])}}],
     exc |-> "none"]

\* executemany(INSERT INTO files ...) over data["files"].items(): the rows ahead of
\* the first entry without kana_reading are inserted, then KeyError is raised
insert_data_files(t, s, data) ==
    LET bad == {i \in DOMAIN data.files : "kana_reading" \notin DOMAIN data.files[i][2]}
        stop == IF bad = {} THEN Len(data.files) + 1
                ELSE CHOOSE i \in bad : \A j \in bad : i <= j
    IN  [t |-> [t EXCEPT !.files = @ \cup
                    {FileRow(s, data.files[i][1], data.files[i][2]) : i \in 1..(stop - 1)}],
         exc |-> IF bad = {} THEN "none" ELSE "KeyError"]

\* mutant: the headwords rows are left behind
remove_data_queries_without_headwords == <<"meta", "files">>

\* remove_data: the tables its DELETE statements name, in order
remove_data_queries == <<"meta", "headwords", "files">>

\* the rows that are left keep their order
Renumber(rows) ==
    {[m EXCEPT !.rowid = Cardinality({x \in rows : x.rowid <= m.rowid})] : m \in rows}

\* a DELETE without its WHERE clause
delete_where_every_source(t, table, s) == [t EXCEPT ![table] = {}]

\* DELETE FROM <table> WHERE source_name = ?
delete_where(t, table, s) ==
    [t EXCEPT ![table] = IF table = "meta" THEN Renumber({r \in @ : r.source_name # s})
                         ELSE {r \in @ : r.source_name # s}]

\* clear_all_audio_data: the tables its script names, in order
clear_all_queries == <<"meta", "headwords", "files">>

\* DELETE FROM <table>
delete_all(t, table) == [t EXCEPT ![table] = {}]

\* mutant: the url is not recorded
update_original_url_skipped(t, s, url) == t

\* UPDATE meta SET original_url = ? WHERE source_name = ?
update_original_url(t, s, url) ==
    [t EXCEPT !.meta = {IF m.source_name = s THEN [m EXCEPT !.original_url = url] ELSE m :
                            m \in @}]

----------------------------------------------------------------------------
(* Cache sessions and cache calls of one execution context k.  A context   *)
(* is outside a `with Sqlite3Buddy() as db` scope ("out"), in its body     *)
(* between two cache calls ("body"), or inside a cache call, whose         *)
(* statements run one at a time.                                           *)

NoArg == [op |-> "none", source_name |-> "", doc |-> NoDoc, step |-> 0]

Call(name, s, data, step) == [op |-> name, source_name |-> s, doc |-> data, step |-> step]

\* a Sqlite3Buddy just constructed: no context holds it, its connection is closed
FreshBuddy ==
    CHOOSE b \in Buddies :
        /\ ~con[b].open /\ \A k \in Contexts : holds[k] # b
        /\ \A b2 \in Buddies : (~con[b2].open /\ \A k \in Contexts : holds[k] # b2) => b <= b2

\* with Sqlite3Buddy() as db: __enter__ (a new buddy: assert self._con is None)
EnterScope(k) ==
    /\ pc[k] = "out"
    /\ \E b \in Buddies : ~con[b].open /\ \A k2 \in Contexts : holds[k2] # b
    /\ LET b == FreshBuddy IN
        /\ ~can_execute(con[b])
        /\ con' = [con EXCEPT ![b] = start_session(@)]
        /\ holds' = [holds EXCEPT ![k] = b]
    /\ pc' = [pc EXCEPT ![k] = "body"]

\* __exit__, reached when the body returns and when it raises
ExitScope(k) ==
    /\ pc[k] = "body"
    /\ can_execute(con[holds[k]])
    /\ LET r == end_session(con[holds[k]], db) IN
        /\ con' = [con EXCEPT ![holds[k]] = r.c]
        /\ db' = r.d
    /\ holds' = [holds EXCEPT ![k] = 0]
    /\ pc' = [pc EXCEPT ![k] = "out"]
    /\ arg' = [arg EXCEPT ![k] = NoArg]
    /\ raised' = [raised EXCEPT ![k] = "none"]
    /\ pre' = [pre EXCEPT ![k] = NoRows]

Enter(k) == EnterScope(k) /\ UNCHANGED <<db, arg, raised, pre, managerVars>>

Exit(k) == ExitScope(k) /\ UNCHANGED managerVars

\* insert_data up to and including its first statement
insert_data(k, s, data) ==
    /\ pc[k] = "body"
    /\ LET b == holds[k]
           v == View(con[b], db)
           key == raise_if_invalid_json(data)
       IN
        /\ pre' = [pre EXCEPT ![k] = RowsOf(v, s)]
        /\ arg' = [arg EXCEPT ![k] =
                    IF key = "none" /\ insert_data_meta(v, s, data).exc = "none"
                    THEN Call("insert_data", s, data, 1)
                    ELSE Call("insert_data", s, NoDoc, 0)]
        /\ IF key # "none"
           THEN /\ raised' = [raised EXCEPT ![k] = InvalidSourceIndex(key)]
                /\ UNCHANGED <<db, con, pc>>
           ELSE LET r == insert_data_meta(v, s, data) IN
                IF r.exc = "KeyError"
                THEN /\ raised' = [raised EXCEPT ![k] = r.exc]
                     /\ UNCHANGED <<db, con, pc>>
                ELSE /\ CanWrite(b)
                     /\ con' = [con EXCEPT ![b] = cur_execute(@, db, r.t).c]
                     /\ raised' = [raised EXCEPT ![k] = r.exc]
                     /\ pc' = [pc EXCEPT ![k] = IF r.exc = "none" THEN "insert_data" ELSE "body"]
                     /\ UNCHANGED db
    /\ UNCHANGED <<holds, managerVars>>

\* the next statement of insert_data: headwords, files, commit
insert_data_step(k) ==
    /\ pc[k] = "insert_data"
    /\ LET b == holds[k]
           v == View(con[b], db)
           s == arg[k].source_name
           data == arg[k].doc
       IN
        CASE arg[k].step = 1 ->
                /\ con' = [con EXCEPT ![b] = cur_execute(@, db, insert_data_headwords(v, s, data).t).c]
                /\ arg' = [arg EXCEPT ![k].step = 2]
                /\ UNCHANGED <<db, pc, raised>>
          [] arg[k].step = 2 ->
                LET r == insert_data_files(v, s, data) IN
                /\ con' = [con EXCEPT ![b] = cur_execute(@, db, r.t).c]
                /\ arg' = [arg EXCEPT ![k] =
                            IF r.exc = "none" THEN [@ EXCEPT !.step = 3] ELSE Call("insert_data", s, NoDoc, 0)]
                /\ raised' = [raised EXCEPT ![k] = r.exc]
                /\ pc' = [pc EXCEPT ![k] = IF r.exc = "none" THEN "insert_data" ELSE "body"]
                /\ UNCHANGED db
          [] arg[k].step = 3 ->
                LET r == con_commit(con[b], db) IN
                /\ con' = [con EXCEPT ![b] = r.c]
                /\ db' = r.d
                /\ pc' = [pc EXCEPT ![k] = "body"]
                /\ arg' = [arg EXCEPT ![k] = Call("insert_data", s, NoDoc, 0)]
                /\ UNCHANGED raised
    /\ UNCHANGED <<holds, pre, managerVars>>

\* mutant: every DELETE is committed on its own, as in a script
remove_data_execute_autocommit(c, d, table, s) ==
    cur_executescript(c, d, delete_where(View(c, d), table, s))

\* one DELETE of remove_data, run by cursor.execute
remove_data_execute(c, d, table, s) == cur_execute(c, d, delete_where(View(c, d), table, s))

\* remove_data up to and including its first DELETE
remove_data(k, s) ==
    /\ pc[k] = "body"
    /\ CanWrite(holds[k])
    /\ LET b == holds[k]
           r == remove_data_execute(con[b], db, remove_data_queries[1], s)
       IN
        /\ con' = [con EXCEPT ![b] = r.c]
        /\ db' = r.d
        /\ pre' = [pre EXCEPT ![k] = RowsOf(View(con[b], db), s)]
    /\ arg' = [arg EXCEPT ![k] = Call("remove_data", s, NoDoc, 2)]
    /\ raised' = [raised EXCEPT ![k] = "none"]
    /\ pc' = [pc EXCEPT ![k] = "remove_data"]
    /\ UNCHANGED <<holds, managerVars>>

\* the next DELETE of remove_data and, after the last one, its commit
remove_data_step(k) ==
    /\ pc[k] = "remove_data"
    /\ CanWrite(holds[k])
    /\ LET b == holds[k]
           i == arg[k].step
           r == IF i <= Len(remove_data_queries)
                THEN remove_data_execute(con[b], db, remove_data_queries[i], arg[k].source_name)
                ELSE con_commit(con[b], db)
       IN
        /\ con' = [con EXCEPT ![b] = r.c]
        /\ db' = r.d
        /\ arg' = [arg EXCEPT ![k].step = IF i <= Len(remove_data_queries) THEN i + 1 ELSE 0]
        /\ pc' = [pc EXCEPT ![k] = IF i <= Len(remove_data_queries) THEN "remove_data" ELSE "body"]
    /\ UNCHANGED <<holds, raised, pre, managerVars>>

\* clear_all_audio_data: executescript commits what is pending, then runs the
\* first DELETE of the script
clear_all_audio_data(k) ==
    /\ pc[k] = "body"
    /\ CanWrite(holds[k])
    /\ LET b == holds[k]
           c1 == con_commit(con[b], db)
           r == cur_executescript(c1.c, c1.d, delete_all(c1.d, clear_all_queries[1]))
       IN
        /\ con' = [con EXCEPT ![b] = r.c]
        /\ db' = r.d
    /\ arg' = [arg EXCEPT ![k] = Call("clear_all_audio_data", "", NoDoc, 2)]
    /\ raised' = [raised EXCEPT ![k] = "none"]
    /\ pre' = [pre EXCEPT ![k] = NoRows]
    /\ pc' = [pc EXCEPT ![k] = "clear_all_audio_data"]
    /\ UNCHANGED <<holds, managerVars>>

\* the next DELETE of the script of clear_all_audio_data; the commit that follows
\* the script finds nothing pending
clear_all_audio_data_step(k) ==
    /\ pc[k] = "clear_all_audio_data"
    /\ CanWrite(holds[k])
    /\ LET b == holds[k]
           i == arg[k].step
           r == cur_executescript(con[b], db, delete_all(db, clear_all_queries[i]))
       IN
        /\ con' = [con EXCEPT ![b] = r.c]
        /\ db' = r.d
        /\ arg' = [arg EXCEPT ![k].step = IF i < Len(clear_all_queries) THEN i + 1 ELSE 0]
        /\ pc' = [pc EXCEPT ![k] = IF i < Len(clear_all_queries) THEN "clear_all_audio_data" ELSE "body"]
    /\ UNCHANGED <<holds, raised, pre, managerVars>>

\* a query of the rows of source s (search_files_in_source, get_file_info,
\* get_cached_sources, ...): one SELECT, which reads one snapshot
read_rows(k, s) ==
    /\ pc[k] = "body"
    /\ pre' = [pre EXCEPT ![k] = RowsOf(View(con[holds[k]], db), s)]
    /\ arg' = [arg EXCEPT ![k] = Call("read_rows", s, NoDoc, 0)]
    /\ UNCHANGED <<db, con, holds, pc, raised, managerVars>>

----------------------------------------------------------------------------
(* The cache store used by two execution contexts, each through sessions   *)
(* of its own: one runs the cache operations, the other reads.             *)

Writer == "worker"

Reader == "main"

NoOp ==
    [kind |-> "none", phase |-> "none", i |-> 0, did_run |-> FALSE, sources |-> <<>>,
     errors |-> <<>>, attempted |-> <<>>, removed |-> <<>>, exc |-> "none", selected |-> {},
     before |-> EmptyTables]

NoLog == [kind |-> "none", did_run |-> FALSE, all_loaded |-> FALSE, evicted |-> FALSE]

NoSearch == [pc |-> "none"]
NoFetch == [pc |-> "none"]

InitManagerIdle ==
    /\ config = <<>>
    /\ audio_sources = <<>>
    /\ op = NoOp
    /\ log = NoLog
    /\ search = NoSearch
    /\ fetch = NoFetch

Init ==
    /\ db = EmptyTables
    /\ con = [b \in Buddies |-> ClosedCon]
    /\ holds = [k \in Contexts |-> 0]
    /\ pc = [k \in Contexts |-> "out"]
    /\ arg = [k \in Contexts |-> NoArg]
    /\ raised = [k \in Contexts |-> "none"]
    /\ pre = [k \in Contexts |-> NoRows]
    /\ InitManagerIdle

Next ==
    \/ \E k \in Contexts : Enter(k)
    \/ \E k \in Contexts : Exit(k)
    \/ \E s \in SourceNames, data \in Docs : insert_data(Writer, s, data)
    \/ insert_data_step(Writer)
    \/ \E s \in SourceNames : remove_data(Writer, s)
    \/ remove_data_step(Writer)
    \/ clear_all_audio_data(Writer)
    \/ clear_all_audio_data_step(Writer)
    \/ \E s \in SourceNames : read_rows(Reader, s)

Spec == Init /\ [][Next]_vars

----------------------------------------------------------------------------
(* Claims about the cache store, checked under Spec.                       *)

WriterView == View(con[holds[Writer]], db)

\* C1: once remove_data(s) has returned, distinct_file_count([s]) and
\* distinct_headword_count([s]) are 0, is_source_cached(s) is false and
\* get_cached_sources() does not list s, whatever the cache held before.
C1_EvictionLeavesNothing ==
    (pc[Writer] = "body" /\ arg[Writer].op = "remove_data") =>
        LET s == arg[Writer].source_name IN
        /\ distinct_file_count(WriterView, <<s>>) = 0
        /\ distinct_headword_count(WriterView, <<s>>) = 0
        /\ ~is_source_cached(WriterView, s)
        /\ \A p \in Range(get_cached_sources(WriterView)) : p[1] # s

\* a remove_data(s) has returned that found rows of s in all three tables, while
\* another source is still cached
C1_Witness ==
    /\ pc[Writer] = "body" /\ arg[Writer].op = "remove_data"
    /\ \A n \in TableNames : pre[Writer][n] # {}
    /\ \E s2 \in SourceNames : is_source_cached(WriterView, s2)

\* C2: from the first DELETE of remove_data(s) to its return, every other
\* connection reads either all the rows of s as they were when the call began or,
\* once it has returned, none of them: never the rows of some tables only.
C2_EvictionIsAtomic ==
    (arg[Writer].op = "remove_data" /\ pc[Writer] \in {"remove_data", "body"}) =>
        \A b \in Buddies \ {holds[Writer]} :
            LET seen == RowsOf(View(con[b], db), arg[Writer].source_name) IN
            /\ seen = pre[Writer] \/ seen = NoRows
            /\ pc[Writer] = "body" => seen = NoRows

\* remove_data(s) has run two of its three DELETEs on a fully cached s while the
\* reader has a session open
C2_Witness ==
    /\ pc[Writer] = "remove_data" /\ arg[Writer].step = 3
    /\ \A n \in TableNames : pre[Writer][n] # {}
    /\ pc[Reader] = "body"
    /\ RowsOf(View(con[holds[Reader]], db), arg[Writer].source_name) = pre[Writer]

\* C3: insert_data(s, doc) with a doc that lacks one of the keys meta, headwords,
\* files raises InvalidSourceIndex naming a key the doc lacks, and writes nothing:
\* the committed tables and the connection's pending changes are as before.
C3_InvalidIndexWritesNothing ==
    [][\A s \in SourceNames, data \in DocsMissingTopLevel :
        insert_data(Writer, s, data) =>
            /\ \E key \in TableNames \ DOMAIN data : raised'[Writer] = InvalidSourceIndex(key)
            /\ pc'[Writer] = "body"
            /\ db' = db /\ con' = con]_vars

\* insert_data has raised InvalidSourceIndex on a cache that holds rows
C3_Witness ==
    /\ arg[Writer].op = "insert_data"
    /\ \E key \in TableNames : raised[Writer] = InvalidSourceIndex(key)
    /\ \E s \in SourceNames : is_source_cached(WriterView, s)

\* C4: if insert_data(s, doc) raised on a key missing below the top level and s
\* had no row before the call, then leaving the session leaves no row of s in
\* the cache.
C4_IngestionAllOrNothing ==
    [][(/\ Exit(Writer)
        /\ arg[Writer].op = "insert_data" /\ raised[Writer] = "KeyError"
        /\ pre[Writer] = NoRows)
       => RowsOf(db', arg[Writer].source_name) = NoRows]_vars

\* C10: inside a scope the connection is open; leaving the scope, after a return
\* or a raise, commits the pending changes and closes the connection; a buddy no
\* scope holds has no open connection.
C10_ScopeOpensAndCloses ==
    /\ [](/\ \A k \in Contexts : pc[k] # "out" => (holds[k] # 0 /\ can_execute(con[holds[k]]))
          /\ \A b \in Buddies : (\A k \in Contexts : holds[k] # b) =>
                (~can_execute(con[b]) /\ ~con[b].in_transaction))
    /\ [][\A k \in Contexts : Exit(k) =>
            /\ db' = View(con[holds[k]], db)
            /\ ~can_execute(con'[holds[k]])
            /\ ~con'[holds[k]].in_transaction]_vars

\* every scope has been left, one of them after insert_data raised half way: the
\* rows written before the raise are committed
C10_Witness ==
    /\ \A k \in Contexts : pc[k] = "out"
    /\ \A b \in Buddies : ~con[b].open
    /\ \E s \in SourceNames : RowsOf(db, s).meta # {} /\ RowsOf(db, s).files = {}


----------------------------------------------------------------------------
(* The audio source manager factory: the configured sources, the active    *)
(* source list, and the operations the add-on runs in the background with  *)
(* their completion callbacks on the main thread.                          *)

UrlOf(s) == "https://" \o s

\* one entry of the "audio_sources" list of the configuration
AudioSourceConfig(s, e) == [name |-> s, url |-> UrlOf(s), enabled |-> e]

\* the configurations: up to two entries with distinct names, in either order
Configs ==
    {<<>>}
    \cup {<<AudioSourceConfig(s, e)>> : s \in SourceNames, e \in BOOLEAN}
    \cup {<<AudioSourceConfig(q[1], q[3]), AudioSourceConfig(q[2], q[4])>> :
            q \in {x \in SourceNames \X SourceNames \X BOOLEAN \X BOOLEAN : x[1] # x[2]}}

\* config.iter_audio_sources(): every configured source, enabled or not
iter_audio_sources(cfg) == cfg

IsEnabled(source) == source.enabled

NameUrl(source) == <<source.name, source.url>>

NameUrls(sources) == [i \in DOMAIN sources |-> NameUrl(sources[i])]

Names(sources) == [i \in DOMAIN sources |-> sources[i].name]

\* AudioSource.from_cfg(source, db); db is the buddy of the session, 0 for None
from_cfg(source, b) == [name |-> source.name, url |-> source.url, db |-> b]

with_db(source, b) == [source EXCEPT !.db = b]

\* mutant: the sources are stored as they come, connection included
set_sources_keeping_db(sources) == sources

\* AudioSourceManagerFactory.set_sources
set_sources(sources) == [i \in DOMAIN sources |-> with_db(sources[i], 0)]

\* session.source_config_changed(): the enabled configured sources against the
\* sources of the session, by name and url
source_config_changed(cfg, sources) ==
    NameUrls(SelectSeq(iter_audio_sources(cfg), IsEnabled)) # NameUrls(sources)

\* mutant: nothing is found unused
sources_to_remove_none(t, cfg) == {}

\* remove_unused_audio_data: source_names_in_db - user_specified_source_names
sources_to_remove(t, cfg) ==
    source_names(t) \ {iter_audio_sources(cfg)[i].name : i \in DOMAIN iter_audio_sources(cfg)}

\* db.remove_data(s) from its statement i on: the DELETEs, then the commit
RECURSIVE remove_data_from(_, _, _, _)
remove_data_from(c, d, s, i) ==
    IF i > Len(remove_data_queries) THEN con_commit(c, d)
    ELSE LET r == remove_data_execute(c, d, remove_data_queries[i], s)
         IN  remove_data_from(r.c, r.d, s, i + 1)

\* for source_name in ...: self.remove_data(source_name)
RECURSIVE remove_each(_, _, _)
remove_each(c, d, S) ==
    IF S = {} THEN [c |-> c, d |-> d]
    ELSE LET s == CHOOSE x \in S : TRUE
             r == remove_data_from(c, d, s, 1)
         IN  remove_each(r.c, r.d, S \ {s})

\* mutant: the result of a pass is installed whether or not the pass ran
after_init_sources_always(did_run, sources, current) == set_sources(sources)

\* _after_init: if result.did_run: self.set_sources(result.sources)
after_init_sources(did_run, sources, current) ==
    IF did_run THEN set_sources(sources) ELSE current

\* db.insert_data(s, data) from validation to commit; an exception leaves what
\* the statements before it have done pending on the connection
insert_data_run(c, d, s, data) ==
    LET key == raise_if_invalid_json(data) IN
    IF key # "none" THEN [c |-> c, d |-> d, exc |-> InvalidSourceIndex(key)]
    ELSE
    LET m == insert_data_meta(View(c, d), s, data) IN
    IF m.exc = "KeyError" THEN [c |-> c, d |-> d, exc |-> m.exc]
    ELSE IF m.exc # "none" THEN [c |-> cur_execute(c, d, m.t).c, d |-> d, exc |-> m.exc]
    ELSE
    LET h == insert_data_headwords(m.t, s, data)
        f == insert_data_files(h.t, s, data)
        c3 == cur_execute(c, d, f.t).c
    IN  IF f.exc # "none" THEN [c |-> c3, d |-> d, exc |-> f.exc]
        ELSE [c |-> con_commit(c3, d).c, d |-> con_commit(c3, d).d, exc |-> "none"]

Launch(kind) == [NoOp EXCEPT !.kind = kind, !.phase = "begin", !.before = db]

MainIsFree == op = NoOp /\ pc["main"] = "out"

Idle == pc[Writer] = "body" /\ arg[Writer].op = "none"

Returned(name) == pc[Writer] = "body" /\ arg[Writer].op = name


\* a change of the configuration in the settings, while no operation is in flight
edit_config(cfg) ==
    /\ MainIsFree
    /\ cfg # config
    /\ config' = cfg
    /\ log' = NoLog
    /\ UNCHANGED <<cacheVars, audio_sources, op, search, fetch>>

\* init_sources_anki: QueryOp(op=self._get_sources, success=self._after_init)
init_sources_anki ==
    /\ MainIsFree
    /\ op' = Launch("init")
    /\ UNCHANGED <<cacheVars, config, search, fetch, audio_sources, log>>

\* _get_sources on the worker: the scope is entered, the session is created,
\* and source_config_changed() decides whether the pass runs
get_sources_begin ==
    /\ op.kind = "init" /\ op.phase = "begin"
    /\ EnterScope(Writer)
    /\ op' = IF source_config_changed(config, audio_sources)
             THEN [op EXCEPT !.phase = "loop", !.i = 1, !.did_run = TRUE]
             ELSE [op EXCEPT !.phase = "exit"]
    /\ UNCHANGED <<db, arg, raised, pre, config, search, fetch, audio_sources, log>>

InLoop == op.kind = "init" /\ op.phase = "loop" /\ op.i <= Len(config)

\* get_sources: if not source.enabled: continue
get_sources_skip ==
    /\ InLoop /\ Idle
    /\ ~config[op.i].enabled
    /\ op' = [op EXCEPT !.i = @ + 1]
    /\ UNCHANGED <<cacheVars, config, search, fetch, audio_sources, log>>

IsUpToDate(source) ==
    /\ is_source_cached(WriterView, source.name)
    /\ get_original_url(WriterView, source.name) = source.url

\* read_pronunciation_data of a source that is cached under the configured url:
\* nothing is loaded, and the source joins the result
read_cached ==
    /\ InLoop /\ Idle
    /\ config[op.i].enabled
    /\ IsUpToDate(config[op.i])
    /\ op' = [op EXCEPT !.i = @ + 1,
                        !.sources = Append(@, from_cfg(config[op.i], holds[Writer])),
                        !.attempted = Append(@, config[op.i].name)]
    /\ UNCHANGED <<cacheVars, config, search, fetch, audio_sources, log>>

MustLoad ==
    /\ InLoop /\ Idle
    /\ config[op.i].enabled
    /\ ~IsUpToDate(config[op.i])

\* read_pronunciation_data ahead of the load: a source cached under another url
\* loses its rows (db.remove_data)
drop_stale(c, d, source) ==
    IF is_source_cached(View(c, d), source.name)
    THEN remove_data_from(c, d, source.name, 1)
    ELSE [c |-> c, d |-> d]

\* the index can not be fetched or read: AudioManagerException, which get_sources
\* catches and appends to errors
read_fetch_failed ==
    /\ MustLoad
    /\ LET b == holds[Writer]
           r == drop_stale(con[b], db, config[op.i])
       IN
        /\ con' = [con EXCEPT ![b] = r.c]
        /\ db' = r.d
    /\ op' = [op EXCEPT !.i = @ + 1,
                        !.errors = Append(@, [source |-> config[op.i].name,
                                              exc |-> "AudioManagerException"]),
                        !.attempted = Append(@, config[op.i].name)]
    /\ UNCHANGED <<holds, pc, arg, raised, pre, config, search, fetch, audio_sources, log>>

\* the index is fetched and handed to db.insert_data. Returned: the url is
\* recorded and the source joins the result. InvalidSourceIndex: caught, the
\* source joins errors. Any other exception leaves get_sources
read_insert(data) ==
    /\ MustLoad
    /\ LET source == config[op.i]
           b == holds[Writer]
           r0 == drop_stale(con[b], db, source)
           r == insert_data_run(r0.c, r0.d, source.name, data)
       IN
        IF r.exc = "none"
        THEN LET u == cur_execute(r.c, r.d, update_original_url(View(r.c, r.d), source.name, source.url))
                 c == con_commit(u.c, u.d)
             IN /\ con' = [con EXCEPT ![b] = c.c]
                /\ db' = c.d
                /\ op' = [op EXCEPT !.i = @ + 1,
                                    !.sources = Append(@, from_cfg(source, b)),
                                    !.attempted = Append(@, source.name)]
        ELSE /\ con' = [con EXCEPT ![b] = r.c]
             /\ db' = r.d
             /\ op' = IF r.exc \in {"KeyError", "IntegrityError"}
                      THEN [op EXCEPT !.phase = "exit", !.exc = r.exc,
                                      !.attempted = Append(@, source.name)]
                      ELSE [op EXCEPT !.i = @ + 1,
                                      !.errors = Append(@, [source |-> source.name,
                                                            exc |-> "AudioManagerException"]),
                                      !.attempted = Append(@, source.name)]
    /\ UNCHANGED <<holds, pc, arg, raised, pre, config, search, fetch, audio_sources, log>>

\* the scope of _get_sources is left: get_sources has returned, _get_sources
\* has returned did_not_run(), or an exception is on its way out
get_sources_end ==
    /\ op.kind = "init"
    /\ \/ op.phase = "exit"
       \/ op.phase = "loop" /\ op.i > Len(config) /\ Idle
    /\ ExitScope(Writer)
    /\ op' = [op EXCEPT !.phase = IF op.exc = "none" THEN "done" ELSE "failed"]
    /\ UNCHANGED <<config, search, fetch, audio_sources, log>>

\* _after_init on the main thread, up to the scope of _remove_unused_audio_data
after_init ==
    /\ op.kind = "init" /\ op.phase = "done"
    /\ pc["main"] = "out"
    /\ audio_sources' = after_init_sources(op.did_run, op.sources, audio_sources)
    /\ IF op.did_run
       THEN /\ EnterScope("main")
            /\ op' = [op EXCEPT !.phase = "evict"]
            /\ UNCHANGED <<db, arg, raised, pre, log>>
       ELSE /\ op' = NoOp
            /\ log' = [kind |-> "init", did_run |-> FALSE, all_loaded |-> TRUE, evicted |-> FALSE]
            /\ UNCHANGED cacheVars
    /\ UNCHANGED <<config, search, fetch>>

\* _remove_unused_audio_data: remove_unused_audio_data in its scope, then the
\* rest of _after_init
remove_unused_audio_data ==
    /\ op.kind = "init" /\ op.phase = "evict"
    /\ pc["main"] = "body"
    /\ LET b == holds["main"]
           unused == sources_to_remove(View(con[b], db), config)
           r == remove_each(con[b], db, unused)
           e == end_session(r.c, r.d)
       IN
        /\ con' = [con EXCEPT ![b] = e.c]
        /\ db' = e.d
        /\ log' = [kind |-> "init", did_run |-> TRUE, all_loaded |-> op.errors = <<>>,
                   evicted |-> unused # {}]
    /\ holds' = [holds EXCEPT !["main"] = 0]
    /\ pc' = [pc EXCEPT !["main"] = "out"]
    /\ op' = NoOp
    /\ UNCHANGED <<arg, raised, pre, config, search, fetch, audio_sources>>

\* the QueryOp of init_sources_anki has failed: the exception is shown, the
\* success callback does not run
init_failed ==
    /\ op.kind = "init" /\ op.phase = "failed"
    /\ pc["main"] = "out"
    /\ op' = NoOp
    /\ log' = [NoLog EXCEPT !.kind = "other"]
    /\ UNCHANGED <<cacheVars, config, search, fetch, audio_sources>>


\* purge_everything: QueryOp(op=purge_sources, success: set_sources([]))
purge_everything ==
    /\ MainIsFree
    /\ op' = Launch("purge")
    /\ UNCHANGED <<cacheVars, config, search, fetch, audio_sources, log>>

\* purge_sources on the worker: the scope is entered
purge_sources_begin ==
    /\ op.kind = "purge" /\ op.phase = "begin"
    /\ EnterScope(Writer)
    /\ op' = [op EXCEPT !.phase = "session"]
    /\ UNCHANGED <<db, arg, raised, pre, config, search, fetch, audio_sources, log>>

\* session.clear_audio_tables() -> db.clear_all_audio_data()
purge_sources_clear ==
    /\ op.kind = "purge" /\ op.phase = "session"
    /\ Idle
    /\ clear_all_audio_data(Writer)

\* the scope of purge_sources is left
purge_sources_end ==
    /\ op.kind = "purge" /\ op.phase = "session"
    /\ Returned("clear_all_audio_data")
    /\ ExitScope(Writer)
    /\ op' = [op EXCEPT !.phase = "done"]
    /\ UNCHANGED <<config, search, fetch, audio_sources, log>>

\* on_finish_wrapper of purge_everything, on the main thread
purge_finish ==
    /\ op.kind = "purge" /\ op.phase = "done"
    /\ pc["main"] = "out"
    /\ audio_sources' = set_sources(<<>>)
    /\ op' = NoOp
    /\ log' = [NoLog EXCEPT !.kind = "other"]
    /\ UNCHANGED <<cacheVars, config, search, fetch>>

Selections == (SUBSET {<<s, UrlOf(s)>> : s \in SourceNames}) \ {{}}

\* remove_sources_from_db: QueryOp(op=remove_selected(gui_selected_sources))
remove_sources_from_db(selected) ==
    /\ MainIsFree
    /\ op' = [Launch("remove") EXCEPT !.selected = selected]
    /\ UNCHANGED <<cacheVars, config, search, fetch, audio_sources, log>>

\* remove_selected on the worker: the scope is entered and the session is given
\* the sources of the factory
remove_selected_begin ==
    /\ op.kind = "remove" /\ op.phase = "begin"
    /\ EnterScope(Writer)
    /\ op' = [op EXCEPT !.phase = "loop", !.i = 1,
                        !.sources = [i \in DOMAIN audio_sources |->
                                        with_db(audio_sources[i], FreshBuddy)]]
    /\ UNCHANGED <<db, arg, raised, pre, config, search, fetch, audio_sources, log>>

InRemoveLoop == op.kind = "remove" /\ op.phase = "loop" /\ op.i <= Len(op.sources)

\* a source of the session that is not selected
remove_selected_skip ==
    /\ InRemoveLoop /\ Idle
    /\ NameUrl(op.sources[op.i]) \notin op.selected
    /\ op' = [op EXCEPT !.i = @ + 1]
    /\ UNCHANGED <<cacheVars, config, search, fetch, audio_sources, log>>

\* a selected source: session.remove_data(cached.name); removed.append(cached)
remove_selected_remove ==
    /\ InRemoveLoop /\ Idle
    /\ NameUrl(op.sources[op.i]) \in op.selected
    /\ LET b == holds[Writer]
           r == remove_data_from(con[b], db, op.sources[op.i].name, 1)
       IN
        /\ con' = [con EXCEPT ![b] = r.c]
        /\ db' = r.d
    /\ op' = [op EXCEPT !.i = @ + 1, !.removed = Append(@, op.sources[op.i])]
    /\ UNCHANGED <<holds, pc, arg, raised, pre, config, search, fetch, audio_sources, log>>

\* the scope of remove_selected is left
remove_selected_end ==
    /\ op.kind = "remove" /\ op.phase = "loop"
    /\ op.i > Len(op.sources) /\ Idle
    /\ ExitScope(Writer)
    /\ op' = [op EXCEPT !.phase = "done"]
    /\ UNCHANGED <<config, search, fetch, audio_sources, log>>

\* on_finish(result) of remove_sources_from_db, on the main thread
remove_selected_finish ==
    /\ op.kind = "remove" /\ op.phase = "done"
    /\ pc["main"] = "out"
    /\ op' = NoOp
    /\ log' = [NoLog EXCEPT !.kind = "other"]
    /\ UNCHANGED <<cacheVars, config, search, fetch, audio_sources>>

\* show_audio_init_result_tooltip: QueryOp(op=get_statistics)
get_statistics ==
    /\ MainIsFree
    /\ op' = Launch("stats")
    /\ UNCHANGED <<cacheVars, config, search, fetch, audio_sources, log>>

\* get_statistics on the worker: the scope is entered
get_statistics_begin ==
    /\ op.kind = "stats" /\ op.phase = "begin"
    /\ EnterScope(Writer)
    /\ op' = [op EXCEPT !.phase = "session"]
    /\ UNCHANGED <<db, arg, raised, pre, config, search, fetch, audio_sources, log>>

\* session.total_stats() has returned and the scope is left
get_statistics_end ==
    /\ op.kind = "stats" /\ op.phase = "session"
    /\ ExitScope(Writer)
    /\ op' = [op EXCEPT !.phase = "done"]
    /\ UNCHANGED <<config, search, fetch, audio_sources, log>>

\* the tooltip is shown on the main thread
get_statistics_finish ==
    /\ op.kind = "stats" /\ op.phase = "done"
    /\ pc["main"] = "out"
    /\ op' = NoOp
    /\ UNCHANGED <<cacheVars, config, search, fetch, audio_sources, log>>

\* a search on the main thread: with Sqlite3Buddy() as db: ... is entered
search_begin == Enter("main")

\* the search is over and its scope is left
search_end ==
    /\ op.phase # "evict"
    /\ Exit("main")

NextManager ==
    \/ \E cfg \in Configs : edit_config(cfg)
    \/ init_sources_anki
    \/ get_sources_begin
    \/ get_sources_skip
    \/ read_cached
    \/ read_fetch_failed
    \/ \E data \in Docs : read_insert(data)
    \/ get_sources_end
    \/ after_init
    \/ remove_unused_audio_data
    \/ init_failed
    \/ purge_everything
    \/ purge_sources_begin
    \/ purge_sources_clear
    \/ clear_all_audio_data_step(Writer)
    \/ purge_sources_end
    \/ purge_finish
    \/ \E selected \in Selections : remove_sources_from_db(selected)
    \/ remove_selected_begin
    \/ remove_selected_skip
    \/ remove_selected_remove
    \/ remove_selected_end
    \/ remove_selected_finish
    \/ get_statistics
    \/ get_statistics_begin
    \/ get_statistics_end
    \/ get_statistics_finish
    \/ search_begin
    \/ search_end

SpecManager == Init /\ [][NextManager]_vars


----------------------------------------------------------------------------
(* Claims about the reconciliation pass, purge and removal.                *)

EnabledNames == Names(SelectSeq(iter_audio_sources(config), IsEnabled))

ConfiguredNames == {config[i].name : i \in DOMAIN config}

LoadedNames == {op.sources[i].name : i \in DOMAIN op.sources}

FailedNames == {op.errors[i].source : i \in DOMAIN op.errors}

\* the subsequence of seq with the elements that are in S
RECURSIVE Only(_, _)
Only(seq, S) ==
    IF seq = <<>> THEN <<>>
    ELSE IF Head(seq) \in S THEN <<Head(seq)>> \o Only(Tail(seq), S)
    ELSE Only(Tail(seq), S)

\* C5: a pass that runs never aborts: when get_sources is over every enabled source
\* has been attempted once, in configuration order, and is in exactly one of
\* sources and errors, both in configuration order; disabled sources are in neither
C5_PassNeverAborts ==
    (op.kind = "init" /\ op.did_run /\ op.phase \in {"done", "failed"}) =>
        /\ op.phase = "done"
        /\ op.attempted = EnabledNames
        /\ LoadedNames \cap FailedNames = {}
        /\ Names(op.sources) = Only(EnabledNames, LoadedNames)
        /\ [i \in DOMAIN op.errors |-> op.errors[i].source] = Only(EnabledNames, FailedNames)
        /\ LoadedNames \cup FailedNames = Range(EnabledNames)

\* C6 (as stated): after a pass that ran, no row remains of a source name that is
\* not the name of an enabled configured source
C6_CachedNamesOutsideEnabledEvicted ==
    (log.kind = "init" /\ log.did_run) =>
        \A s \in SourceNames \ Range(EnabledNames) : RowsOf(db, s) = NoRows

\* C6: after a pass that ran, no row remains of a source name that is not the name
\* of a configured source, enabled or disabled
C6_UnconfiguredNamesEvicted ==
    (log.kind = "init" /\ log.did_run) =>
        \A s \in SourceNames \ ConfiguredNames : RowsOf(db, s) = NoRows

\* a pass that ran has evicted a source, and a configured, disabled source is
\* still in the cache
C6_Witness ==
    /\ log.kind = "init" /\ log.did_run /\ log.evicted
    /\ \E i \in DOMAIN config : ~config[i].enabled /\ is_source_cached(db, config[i].name)

\* what a pass that did not run leaves alone, whatever step is taken
NotRunPassChangesNothing ==
    (op.kind = "init" /\ ~op.did_run /\ op.phase \in {"exit", "done"}) =>
        /\ db' = db
        /\ audio_sources' = audio_sources
        /\ \A b \in Buddies : ~con'[b].in_transaction

C8_QueriesSeeListAndCacheInStep ==
    (pc["main"] = "body" /\ op.phase # "evict") =>
        /\ op.kind \in {"init", "purge", "remove"} => db = op.before
        /\ \A i \in DOMAIN audio_sources : RowsOf(db, audio_sources[i].name) # NoRows

\* C9: an operation in the background works in a scope of its own and has left it
\* when it returns; no buddy is held by two contexts, no connection is open
\* outside a scope, the sources of a session refer to the buddy of that session,
\* and the sources stored in the factory refer to none
C9_OwnConnectionPerOperation ==
    /\ \A k1, k2 \in Contexts : (k1 # k2 /\ holds[k1] # 0) => holds[k1] # holds[k2]
    /\ \A b \in Buddies : can_execute(con[b]) => \E k \in Contexts : holds[k] = b
    /\ op.phase \in {"session", "loop", "exit"} =>
            /\ holds[Writer] # 0
            /\ can_execute(con[holds[Writer]])
            /\ \A i \in DOMAIN op.sources : op.sources[i].db = holds[Writer]
    /\ op.phase = "evict" => holds["main"] # 0 /\ can_execute(con[holds["main"]])
    /\ op.phase \in {"done", "failed"} =>
            /\ holds[Writer] = 0
            /\ \A b \in Buddies : can_execute(con[b]) => holds["main"] = b
    /\ \A i \in DOMAIN audio_sources : audio_sources[i].db = 0

\* a pass and a search hold a connection each, the pass has loaded a source, and
\* the factory holds the sources of an earlier pass
C9_Witness ==
    /\ holds["main"] # 0 /\ holds[Writer] # 0
    /\ op.kind = "init" /\ op.sources # <<>>
    /\ audio_sources # <<>>


----------------------------------------------------------------------------
(* A buddy used without a with scope: start_session, end_session and the   *)
(* cache operations are called directly, in any order.                     *)

Sqlite3BuddyError == "Sqlite3BuddyError"

\* mutant: start_session connects again whatever the state of the buddy
start_session_call_reconnecting(c) ==
    [c |-> start_session(ClosedCon), exc |-> "none"]

\* start_session as called: raises if the buddy can execute, else connects
start_session_call(c) ==
    IF can_execute(c) THEN [c |-> c, exc |-> Sqlite3BuddyError]
    ELSE [c |-> start_session(c), exc |-> "none"]

\* end_session as called: raises if the buddy can not execute, else commits
\* and closes
end_session_call(c, d) ==
    IF ~can_execute(c) THEN [c |-> c, d |-> d, exc |-> Sqlite3BuddyError]
    ELSE [c |-> end_session(c, d).c, d |-> end_session(c, d).d, exc |-> "none"]

\* the con property: assert self._con
con_property(c) == IF can_execute(c) THEN "none" ELSE "AssertionError"

\* the buddy that is used directly
TheBuddy == 1

direct_start_session ==
    /\ LET r == start_session_call(con[TheBuddy]) IN
        /\ con' = [con EXCEPT ![TheBuddy] = r.c]
        /\ raised' = [raised EXCEPT ![Writer] = r.exc]
    /\ UNCHANGED <<db, holds, pc, arg, pre, managerVars>>

direct_end_session ==
    /\ LET r == end_session_call(con[TheBuddy], db) IN
        /\ con' = [con EXCEPT ![TheBuddy] = r.c]
        /\ db' = r.d
        /\ raised' = [raised EXCEPT ![Writer] = r.exc]
    /\ UNCHANGED <<holds, pc, arg, pre, managerVars>>

\* db.insert_data(s, data), whose first use of self.con fails on a buddy
\* without a connection
direct_insert_data(s, data) ==
    /\ LET c == con[TheBuddy]
           r == IF con_property(c) # "none" THEN [c |-> c, d |-> db, exc |-> con_property(c)]
                ELSE insert_data_run(c, db, s, data)
       IN
        /\ con' = [con EXCEPT ![TheBuddy] = r.c]
        /\ db' = r.d
        /\ raised' = [raised EXCEPT ![Writer] = r.exc]
    /\ UNCHANGED <<holds, pc, arg, pre, managerVars>>

\* db.remove_data(s)
direct_remove_data(s) ==
    /\ LET c == con[TheBuddy]
           r == IF con_property(c) # "none" THEN [c |-> c, d |-> db]
                ELSE remove_data_from(c, db, s, 1)
       IN
        /\ con' = [con EXCEPT ![TheBuddy] = r.c]
        /\ db' = r.d
        /\ raised' = [raised EXCEPT ![Writer] = con_property(c)]
    /\ UNCHANGED <<holds, pc, arg, pre, managerVars>>

NextSession ==
    \/ direct_start_session
    \/ direct_end_session
    \/ \E s \in SourceNames, data \in Docs : direct_insert_data(s, data)
    \/ \E s \in SourceNames : direct_remove_data(s)

SpecSession == Init /\ [][NextSession]_vars

\* C11: start_session on a buddy that can execute raises Sqlite3BuddyError and
\* leaves the connection as it is; end_session on a buddy that can not execute
\* raises Sqlite3BuddyError and leaves it closed; a cache operation on a buddy
\* without a connection fails and writes no row
C11_IllegalSessionUseChangesNothing ==
    [][/\ (direct_start_session /\ can_execute(con[TheBuddy])) =>
                raised'[Writer] = Sqlite3BuddyError /\ con' = con /\ db' = db
       /\ (direct_end_session /\ ~can_execute(con[TheBuddy])) =>
                /\ raised'[Writer] = Sqlite3BuddyError
                /\ con' = con /\ ~can_execute(con'[TheBuddy]) /\ db' = db
       /\ ((\/ \E s \in SourceNames, data \in Docs : direct_insert_data(s, data)
            \/ \E s \in SourceNames : direct_remove_data(s))
           /\ ~can_execute(con[TheBuddy])) =>
                raised'[Writer] # "none" /\ con' = con /\ db' = db]_vars

\* start_session has raised on a buddy that holds uncommitted rows, and they
\* are still there
C11_Witness ==
    /\ raised[Writer] = Sqlite3BuddyError
    /\ can_execute(con[TheBuddy])
    /\ con[TheBuddy].in_transaction
    /\ con[TheBuddy].work # db


\* C12: when remove_selected is over, the sources it returns are exactly the
\* selected (name, url) pairs that were cached when it was called, and none of
\* them is cached any more
C12_RemovalReturnsWhatItRemoved ==
    (op.kind = "remove" /\ op.phase = "done") =>
        /\ {NameUrl(op.removed[i]) : i \in DOMAIN op.removed}
                = op.selected \cap Range(get_cached_sources(op.before))
        /\ \A i \in DOMAIN op.removed : ~is_source_cached(db, op.removed[i].name)


\* a pass that ran is being completed, every configured source is enabled and
\* every one of them was loaded
FullPassCompletes ==
    /\ remove_unused_audio_data
    /\ \A i \in DOMAIN config : config[i].enabled
    /\ op.errors = <<>>

----------------------------------------------------------------------------
(* Statistics.                                                             *)

NoStats == [found |-> FALSE, source_name |-> "", num_headwords |-> 0, num_files |-> 0]

\* get_stats_by_name: None unless meta has the source under this name and url
get_stats_by_name(t, source) ==
    IF \E m \in t.meta : m.source_name = source[1] /\ m.original_url = source[2]
    THEN [found |-> TRUE, source_name |-> source[1],
          num_headwords |-> Cardinality({h.headword : h \in {x \in t.headwords : x.source_name = source[1]}}),
          num_files |-> Cardinality({f.file_name : f \in {x \in t.files : x.source_name = source[1]}})]
    ELSE NoStats

IsFound(stats) == stats.found

\* session.total_stats(): the counts over the sources of the session, and the
\* statistics of each of them that the cache knows
total_stats(t, sources) ==
    [unique_headwords |-> distinct_headword_count(t, Names(sources)),
     unique_files |-> distinct_file_count(t, Names(sources)),
     sources |-> SelectSeq([i \in DOMAIN sources |-> get_stats_by_name(t, NameUrl(sources[i]))],
                           IsFound)]

\* every active source is in the cache, under its url
ActiveAreCached ==
    \A i \in DOMAIN audio_sources : NameUrl(audio_sources[i]) \in Range(get_cached_sources(db))

\* the headwords and the files of the document a source was loaded from
HeadwordsAsLoaded == DOMAIN GoodDoc.headwords

FilesAsLoaded == {GoodDoc.files[i][1] : i \in DOMAIN GoodDoc.files}

\* C14: with the active sources ingested, total_stats() counts the distinct
\* headwords and the distinct files (by file name, dictionary and url) of the
\* documents they were loaded from, has one entry per active source, and with
\* one active source the totals are the numbers of its entry
C14_TotalStatsMatchLoaded ==
    (op.kind = "stats" /\ op.phase \in {"session", "done"} /\ ActiveAreCached) =>
        LET st == total_stats(db, audio_sources) IN
        /\ st.unique_headwords = IF audio_sources = <<>> THEN 0 ELSE Cardinality(HeadwordsAsLoaded)
        /\ st.unique_files =
                Cardinality({<<f, GoodDoc.meta.name, audio_sources[i].url>> :
                                f \in FilesAsLoaded, i \in DOMAIN audio_sources})
        /\ [i \in DOMAIN st.sources |-> st.sources[i].source_name] = Names(audio_sources)
        /\ \A i \in DOMAIN st.sources :
                /\ st.sources[i].num_headwords = Cardinality(HeadwordsAsLoaded)
                /\ st.sources[i].num_files = Cardinality(FilesAsLoaded)
        /\ Len(audio_sources) = 1 =>
                /\ st.unique_headwords = st.sources[1].num_headwords
                /\ st.unique_files = st.sources[1].num_files

\* get_statistics has returned the statistics of two active, cached sources
C14_Witness ==
    /\ op.kind = "stats" /\ op.phase = "done"
    /\ Len(audio_sources) = 2
    /\ ActiveAreCached

----------------------------------------------------------------------------
(* Search (audio.py, search_audio).                                         *)
(*                                                                          *)
(* A text is a sequence of words; a word is a pair <<base, script>>.  The   *)
(* empty text is Python's empty string.  The helpers the search imports     *)
(* (kana_conv, unify_readings, inflections, tokens, mingle_readings,        *)
(* unique_files, mecab) are modelled on this alphabet.                      *)

Bases == {"x", "y", "z"}
Scripts == {"kanji", "hira", "kata", "mark"}

\* kana_conv.to_hiragana: katakana characters become hiragana, the rest stays
to_hiragana(text) ==
    [i \in 1..Len(text) |->
        IF text[i][2] = "kata" THEN <<text[i][1], "hira">> ELSE text[i]]

\* kana_conv.to_katakana: hiragana characters become katakana, the rest stays
to_katakana(text) ==
    [i \in 1..Len(text) |->
        IF text[i][2] = "hira" THEN <<text[i][1], "kata">> ELSE text[i]]

\* unify_readings.literal_pronunciation: the canonical form of a reading
pr(reading) == to_katakana(reading)

\* inflections.is_inflected: the reading does not end as the headword does
is_inflected(word, reading) ==
    /\ word # <<>> /\ reading # <<>>
    /\ word[Len(word)][1] # reading[Len(reading)][1]

\* mingle_readings.split_possible_furigana applied to the plain text
split_possible_furigana(src) == <<src.expr, src.furigana>>

\* tokens.tokenize: one token per word; marks are not ParseableToken
tokenize(text) == [i \in 1..Len(text) |-> <<text[i]>>]
IsParseableToken(token) == token[1][2] # "mark"

\* iter_tokens
iter_tokens(src_text) == SelectSeq(tokenize(src_text), IsParseableToken)

\* mecab.translate: the morphemes of a token, each with its dictionary form
\* and, when known, its katakana reading
MecabParsedToken(headword, katakana_reading) ==
    [headword |-> headword, katakana_reading |-> katakana_reading]

translate(token) ==
    LET b == token[1][1]
        s == token[1][2]
    IN  CASE b = "x" -> << MecabParsedToken(<< <<"x", s>> >>, << <<"x", "kata">> >>) >>
          [] b = "y" -> << MecabParsedToken(<< <<"x", s>> >>, << <<"y", "kata">> >>) >>
          [] OTHER   -> << MecabParsedToken(<< <<"x", s>> >>, << <<"x", "kata">> >>),
                           MecabParsedToken(<< <<"y", s>> >>, <<>>) >>

FileUrlData(word, reading, source_name, desired_filename, pitch_number) ==
    [word |-> word, reading |-> reading, source_name |-> source_name,
     desired_filename |-> desired_filename, pitch_number |-> pitch_number]

\* the files the cache may hold, in the order a scan of the headwords returns them
CachePool ==
    << FileUrlData(<< <<"x", "kanji">> >>, << <<"y", "kata">> >>, "A", "f1", 1),
       FileUrlData(<< <<"x", "kanji">> >>, << <<"x", "hira">> >>, "B", "f2", 0),
       FileUrlData(<< <<"x", "kanji">> >>, << <<"y", "hira">> >>, "A", "f3", 1),
       FileUrlData(<< <<"x", "hira">> >>,  << <<"x", "hira">> >>, "B", "f4", 0),
       FileUrlData(<< <<"y", "kata">> >>,  << <<"y", "kata">> >>, "A", "f5", 1),
       FileUrlData(<< <<"x", "kata">> >>,  << <<"x", "hira">> >>, "B", "f4", 0) >>

RECURSIVE Pick(_, _)
Pick(pool, chosen) ==
    IF pool = <<>> THEN <<>>
    ELSE (IF Len(pool) \in chosen THEN <<Head(pool)>> ELSE <<>>)
         \o Pick(Tail(pool), {i \in chosen : i < Len(pool)})

Caches == {Pick(CachePool, chosen) : chosen \in SUBSET (1..Len(CachePool))}

SearchTexts ==
    { << <<"x", "kanji">> >>,
      << <<"x", "kata">> >>,
      << <<"x", "hira">> >>,
      << <<"x", "kanji">>, <<"y", "hira">> >>,
      << <<"x", "kanji">>, <<"z", "mark">>, <<"x", "kanji">> >>,
      << <<"z", "kanji">> >>,
      << <<"y", "kanji">> >>,
      << <<"x", "kata">>, <<"x", "hira">> >>,
      << <<"z", "mark">> >>,
      <<>> }

SearchReadings == { <<>>, << <<"x", "hira">> >>, << <<"y", "kata">> >> }

\* AudioSourceManager.search_word: the files of every cached source under
\* the headword
search_word(cache, word) == SelectSeq(cache, LAMBDA hit : hit.word = word)

\* A call the search makes to the cache or to the tokenizers
Lookup(fn, text) == [fn |-> fn, arg |-> text]

\* _search_word_variants that stops at the first lookup with results
search_word_variants_until_found(cache, src_text) ==
    IF search_word(cache, src_text) # <<>>
    THEN [files |-> search_word(cache, src_text),
          calls |-> <<Lookup("search_word", src_text)>>]
    ELSE IF search_word(cache, to_hiragana(src_text)) # <<>>
    THEN [files |-> search_word(cache, to_hiragana(src_text)),
          calls |-> <<Lookup("search_word", src_text),
                      Lookup("search_word", to_hiragana(src_text))>>]
    ELSE [files |-> search_word(cache, to_katakana(src_text)),
          calls |-> <<Lookup("search_word", src_text),
                      Lookup("search_word", to_hiragana(src_text)),
                      Lookup("search_word", to_katakana(src_text))>>]

\* _search_word_variants, consumed to its end as extend() and tuple() do
search_word_variants(cache, src_text) ==
    [files |-> search_word(cache, src_text)
               \o search_word(cache, to_hiragana(src_text))
               \o search_word(cache, to_katakana(src_text)),
     calls |-> <<Lookup("search_word", src_text),
                 Lookup("search_word", to_hiragana(src_text)),
                 Lookup("search_word", to_katakana(src_text))>>]

\* iter_mecab_variants in the order katakana reading, hiragana reading, headword
iter_mecab_variants_reading_first(token) ==
    (IF token.katakana_reading # <<>>
     THEN <<token.katakana_reading, to_hiragana(token.katakana_reading)>>
     ELSE <<>>) \o <<token.headword>>

\* iter_mecab_variants
iter_mecab_variants(token) ==
    <<token.headword>>
    \o (IF token.katakana_reading # <<>>
        THEN <<token.katakana_reading, to_hiragana(token.katakana_reading)>>
        ELSE <<>>)

\* dict: the keys in insertion order, each with its list
HasKey(hits, key) == \E i \in 1..Len(hits) : hits[i].key = key

\* hits[key] of a defaultdict(list), read without inserting
Get(hits, key) ==
    IF HasKey(hits, key)
    THEN hits[CHOOSE i \in 1..Len(hits) : hits[i].key = key].files
    ELSE <<>>

\* hits[key].extend(files)
Extend(hits, key, files) ==
    IF HasKey(hits, key)
    THEN [i \in 1..Len(hits) |->
            IF hits[i].key = key THEN [hits[i] EXCEPT !.files = @ \o files] ELSE hits[i]]
    ELSE Append(hits, [key |-> key, files |-> files])

\* hits[key] = files
SetItem(hits, key, files) ==
    IF HasKey(hits, key)
    THEN [i \in 1..Len(hits) |->
            IF hits[i].key = key THEN [hits[i] EXCEPT !.files = files] ELSE hits[i]]
    ELSE Append(hits, [key |-> key, files |-> files])

\* hits.update(other)
RECURSIVE Update(_, _)
Update(hits, other) ==
    IF other = <<>> THEN hits
    ELSE Update(SetItem(hits, Head(other).key, Head(other).files), Tail(other))

\* dict.fromkeys(tokens): the tokens in first-occurrence order, no repeats
RECURSIVE fromkeys(_)
fromkeys(tokens) ==
    IF tokens = <<>> THEN <<>>
    ELSE LET init == fromkeys(SubSeq(tokens, 1, Len(tokens) - 1))
             last == tokens[Len(tokens)]
         IN  IF \E i \in 1..Len(init) : init[i] = last THEN init ELSE Append(init, last)

\* _parse_and_search_audio, the inner loop over the variants of one morpheme
RECURSIVE search_mecab_variants(_, _)
search_mecab_variants(cache, variants) ==
    IF variants = <<>> THEN [files |-> <<>>, calls |-> <<>>]
    ELSE LET found == search_word_variants(cache, Head(variants))
         IN  IF found.files # <<>> THEN found
             ELSE LET rest == search_mecab_variants(cache, Tail(variants))
                  IN  [files |-> rest.files, calls |-> found.calls \o rest.calls]

\* _parse_and_search_audio, the outer loop over the morphemes
RECURSIVE search_parsed(_, _, _)
search_parsed(cache, parsed, hits) ==
    IF parsed = <<>> THEN [hits |-> hits, calls |-> <<>>]
    ELSE LET found == search_mecab_variants(cache, iter_mecab_variants(Head(parsed)))
             rest  == search_parsed(cache, Tail(parsed),
                                    IF found.files # <<>>
                                    THEN Extend(hits, Head(parsed).headword, found.files)
                                    ELSE hits)
         IN  [hits |-> rest.hits, calls |-> found.calls \o rest.calls]

\* _parse_and_search_audio
parse_and_search_audio(cache, src_text) ==
    LET found == search_parsed(cache, translate(src_text), <<>>)
    IN  [hits |-> found.hits, calls |-> <<Lookup("translate", src_text)>> \o found.calls]

\* exclude_inflections that keeps every hit
exclude_inflections_keeping_all(hits) == hits

\* exclude_inflections
exclude_inflections(hits) ==
    [i \in 1..Len(hits) |->
        [hits[i] EXCEPT !.files =
            SelectSeq(@, LAMBDA hit : ~is_inflected(hit.word, hit.reading))]]

\* take_first_source that takes the source of the first hit of the whole search
take_first_source_of_all(hits) ==
    LET all == [i \in 1..Len(hits) |-> hits[i].files]
        nonempty == {i \in 1..Len(hits) : hits[i].files # <<>>}
        first == CHOOSE i \in nonempty : \A j \in nonempty : i <= j
    IN  IF nonempty = {} THEN hits
        ELSE [i \in 1..Len(hits) |->
                [hits[i] EXCEPT !.files =
                    SelectSeq(@, LAMBDA hit :
                        hit.source_name = hits[first].files[1].source_name)]]

\* take_first_source
take_first_source(hits) ==
    [i \in 1..Len(hits) |->
        IF Len(hits[i].files) > 1
        THEN [hits[i] EXCEPT !.files =
                SelectSeq(@, LAMBDA hit : hit.source_name = hits[i].files[1].source_name)]
        ELSE hits[i]]

\* itertools.chain(*hits.values())
RECURSIVE chain(_)
chain(hits) == IF hits = <<>> THEN <<>> ELSE Head(hits).files \o chain(Tail(hits))

\* unique_files.ensure_unique_files: the first file of every
\* (filename, source, reading, pitch number)
FileIdentity(hit) ==
    <<hit.desired_filename, hit.source_name, hit.reading, hit.pitch_number>>

RECURSIVE ensure_unique_files(_)
ensure_unique_files(files) ==
    IF files = <<>> THEN <<>>
    ELSE LET init == ensure_unique_files(SubSeq(files, 1, Len(files) - 1))
             last == files[Len(files)]
         IN  IF \E i \in 1..Len(init) : FileIdentity(init[i]) = FileIdentity(last)
             THEN init ELSE Append(init, last)

\* the order of Python strings, on texts: word by word, a prefix first
WordRank(word) ==
    (CASE word[1] = "x" -> 0 [] word[1] = "y" -> 4 [] OTHER -> 8)
    + (CASE word[2] = "mark" -> 0 [] word[2] = "hira" -> 1
         [] word[2] = "kata" -> 2 [] OTHER -> 3)

RECURSIVE TextLess(_, _)
TextLess(a, b) ==
    IF b = <<>> THEN FALSE
    ELSE IF a = <<>> THEN TRUE
    ELSE IF WordRank(Head(a)) # WordRank(Head(b)) THEN WordRank(Head(a)) < WordRank(Head(b))
    ELSE TextLess(Tail(a), Tail(b))

\* the sort key of sorted_files
FileLess(a, b) ==
    \/ TextLess(pr(a.reading), pr(b.reading))
    \/ pr(a.reading) = pr(b.reading) /\ a.pitch_number < b.pitch_number

\* a sort that puts a hit before the earlier hits with its key
RECURSIVE sorted_files_ties_reversed(_)
sorted_files_ties_reversed(hits) ==
    IF hits = <<>> THEN <<>>
    ELSE LET init == sorted_files_ties_reversed(SubSeq(hits, 1, Len(hits) - 1))
             last == hits[Len(hits)]
             k == Cardinality({i \in 1..Len(init) : FileLess(init[i], last)})
         IN  SubSeq(init, 1, k) \o <<last>> \o SubSeq(init, k + 1, Len(init))

\* sorted(): stable
RECURSIVE sorted_files(_)
sorted_files(hits) ==
    IF hits = <<>> THEN <<>>
    ELSE LET init == sorted_files(SubSeq(hits, 1, Len(hits) - 1))
             last == hits[Len(hits)]
             k == Cardinality({i \in 1..Len(init) : ~FileLess(last, init[i])})
         IN  SubSeq(init, 1, k) \o <<last>> \o SubSeq(init, k + 1, Len(init))

\* The lookups of one pass of the search
Tagged(calls, pass) ==
    [i \in 1..Len(calls) |-> [fn |-> calls[i].fn, arg |-> calls[i].arg, pass |-> pass]]

\* search_audio(src_text, split_morphemes=..., ...) as it is entered
NewSearch(src, split_morphemes, ignore_inflections, stop_if_one_source_has_results, cache) ==
    [pc |-> "call", src |-> src, split_morphemes |-> split_morphemes,
     ignore_inflections |-> ignore_inflections,
     stop_if_one_source_has_results |-> stop_if_one_source_has_results,
     cache |-> cache, src_text |-> <<>>, src_text_reading |-> <<>>,
     hits |-> <<>>, parts |-> <<>>, calls |-> <<>>, result |-> <<>>]

\* search_audio: the text and the reading of the input
split_source(st) ==
    [st EXCEPT !.src_text = split_possible_furigana(st.src)[1],
               !.src_text_reading = split_possible_furigana(st.src)[2],
               !.pc = "full_text"]

\* search_audio: "Try full text search."
full_text_search(st) ==
    LET found == search_word_variants(st.cache, st.src_text)
    IN  [st EXCEPT !.hits = Extend(@, st.src_text, found.files),
                   !.calls = @ \o Tagged(found.calls, "full_text"),
                   !.pc = "erase"]

\* the reading filter comparing the readings as they are written
erase_mismatched_readings_literally(st) ==
    [st EXCEPT !.hits =
                 IF Get(st.hits, st.src_text) # <<>> /\ st.src_text_reading # <<>>
                 THEN SetItem(@, st.src_text,
                              SelectSeq(Get(st.hits, st.src_text),
                                        LAMBDA hit : hit.reading = st.src_text_reading))
                 ELSE @,
               !.pc = "reading"]

\* search_audio: "If reading was specified, erase results that don't match
\* the reading."
erase_mismatched_readings(st) ==
    [st EXCEPT !.hits =
                 IF Get(st.hits, st.src_text) # <<>> /\ st.src_text_reading # <<>>
                 THEN SetItem(@, st.src_text,
                              SelectSeq(Get(st.hits, st.src_text),
                                        LAMBDA hit : pr(hit.reading) = pr(st.src_text_reading)))
                 ELSE @,
               !.pc = "reading"]

\* the search by the reading whenever a reading was given
reading_search_always(st) ==
    LET found == search_word_variants(st.cache, st.src_text_reading)
    IN  IF st.src_text_reading # <<>>
        THEN [st EXCEPT !.hits = Extend(@, st.src_text, found.files),
                        !.calls = @ \o Tagged(found.calls, "reading"),
                        !.pc = "split"]
        ELSE [st EXCEPT !.pc = "split"]

\* search_audio: "If reading was specified, try searching by the reading only."
reading_search(st) ==
    LET found == search_word_variants(st.cache, st.src_text_reading)
    IN  IF Get(st.hits, st.src_text) = <<>> /\ st.src_text_reading # <<>>
        THEN [st EXCEPT !.hits = Extend(@, st.src_text, found.files),
                        !.calls = @ \o Tagged(found.calls, "reading"),
                        !.pc = "split"]
        ELSE [st EXCEPT !.pc = "split"]

\* search_audio: "Try to split the source text in various ways", the loop
\* is entered over dict.fromkeys(iter_tokens(src_text))
split_text(st) ==
    IF Get(st.hits, st.src_text) = <<>>
    THEN [st EXCEPT !.parts = fromkeys(iter_tokens(st.src_text)),
                    !.calls = @ \o Tagged(<<Lookup("tokenize", st.src_text)>>, "tokens"),
                    !.pc = IF iter_tokens(st.src_text) = <<>> THEN "inflections" ELSE "parts"]
    ELSE [st EXCEPT !.pc = "inflections"]

\* search_audio: one turn of the loop over the parts
search_part(st) ==
    LET part   == Head(st.parts)
        files  == search_word_variants(st.cache, part)
        parsed == parse_and_search_audio(st.cache, part)
        next   == IF Tail(st.parts) = <<>> THEN "inflections" ELSE "parts"
    IN  IF files.files # <<>>
        THEN [st EXCEPT !.hits = Extend(@, part, files.files),
                        !.calls = @ \o Tagged(files.calls, "tokens"),
                        !.parts = Tail(@), !.pc = next]
        ELSE IF st.split_morphemes
        THEN [st EXCEPT !.hits = Update(@, parsed.hits),
                        !.calls = @ \o Tagged(files.calls, "tokens")
                                    \o Tagged(parsed.calls, "morphemes"),
                        !.parts = Tail(@), !.pc = next]
        ELSE [st EXCEPT !.calls = @ \o Tagged(files.calls, "tokens"),
                        !.parts = Tail(@), !.pc = next]

\* search_audio: "Filter out inflections if the user wants to."
filter_inflections(st) ==
    [st EXCEPT !.hits = IF st.ignore_inflections THEN exclude_inflections(@) ELSE @,
               !.pc = "first_source"]

\* the first-source filter reading word_hits[0] of every list, an IndexError
\* on an empty one
filter_first_source_unguarded(st) ==
    IF st.stop_if_one_source_has_results
       /\ \E i \in 1..Len(st.hits) : st.hits[i].files = <<>>
    THEN [st EXCEPT !.pc = "raised"]
    ELSE [st EXCEPT !.hits = IF st.stop_if_one_source_has_results
                               THEN take_first_source(@) ELSE @,
                    !.pc = "return"]

\* search_audio: "Keep only items where the name of the source is equal to
\* the name of the first source that has yielded matches."
filter_first_source(st) ==
    [st EXCEPT !.hits = IF st.stop_if_one_source_has_results THEN take_first_source(@) ELSE @,
               !.pc = "return"]

\* the return statement without ensure_unique_files
return_files_with_repeats(st) ==
    [st EXCEPT !.result = sorted_files(chain(st.hits)),
               !.pc = "done"]

\* search_audio: the return statement
return_files(st) ==
    [st EXCEPT !.result = sorted_files(ensure_unique_files(chain(st.hits))),
               !.pc = "done"]

\* search_audio from any point of it to its return
RECURSIVE search_audio(_)
search_audio(st) ==
    CASE st.pc = "call"         -> search_audio(split_source(st))
      [] st.pc = "full_text"    -> search_audio(full_text_search(st))
      [] st.pc = "erase"        -> search_audio(erase_mismatched_readings(st))
      [] st.pc = "reading"      -> search_audio(reading_search(st))
      [] st.pc = "split"        -> search_audio(split_text(st))
      [] st.pc = "parts"        -> search_audio(search_part(st))
      [] st.pc = "inflections"  -> search_audio(filter_inflections(st))
      [] st.pc = "first_source" -> search_audio(filter_first_source(st))
      [] st.pc = "return"       -> search_audio(return_files(st))
      [] OTHER                  -> st

\* search_audio: split_possible_furigana
search_audio_split_source ==
    /\ search.pc = "call"
    /\ search' = split_source(search)
    /\ UNCHANGED <<cacheVars, config, audio_sources, op, log, fetch>>

\* search_audio: the full text search
search_audio_full_text ==
    /\ search.pc = "full_text"
    /\ search' = full_text_search(search)
    /\ UNCHANGED <<cacheVars, config, audio_sources, op, log, fetch>>

\* search_audio: the reading filter
search_audio_erase ==
    /\ search.pc = "erase"
    /\ search' = erase_mismatched_readings(search)
    /\ UNCHANGED <<cacheVars, config, audio_sources, op, log, fetch>>

\* search_audio: the search by the reading
search_audio_reading ==
    /\ search.pc = "reading"
    /\ search' = reading_search(search)
    /\ UNCHANGED <<cacheVars, config, audio_sources, op, log, fetch>>

\* search_audio: the loop over the parts is entered, or skipped
search_audio_split_text ==
    /\ search.pc = "split"
    /\ search' = split_text(search)
    /\ UNCHANGED <<cacheVars, config, audio_sources, op, log, fetch>>

\* search_audio: one part is searched
search_audio_part ==
    /\ search.pc = "parts"
    /\ search' = search_part(search)
    /\ UNCHANGED <<cacheVars, config, audio_sources, op, log, fetch>>

\* search_audio: exclude_inflections, if asked for
search_audio_inflections ==
    /\ search.pc = "inflections"
    /\ search' = filter_inflections(search)
    /\ UNCHANGED <<cacheVars, config, audio_sources, op, log, fetch>>

\* search_audio: take_first_source, if asked for
search_audio_first_source ==
    /\ search.pc = "first_source"
    /\ search' = filter_first_source(search)
    /\ UNCHANGED <<cacheVars, config, audio_sources, op, log, fetch>>

\* search_audio returns
search_audio_return ==
    /\ search.pc = "return"
    /\ search' = return_files(search)
    /\ UNCHANGED <<cacheVars, config, audio_sources, op, log, fetch>>

SearchSources == [expr : SearchTexts, furigana : SearchReadings]

InitSearch ==
    /\ db = EmptyTables
    /\ con = [b \in Buddies |-> ClosedCon]
    /\ holds = [k \in Contexts |-> 0]
    /\ pc = [k \in Contexts |-> "out"]
    /\ arg = [k \in Contexts |-> NoArg]
    /\ raised = [k \in Contexts |-> "none"]
    /\ pre = [k \in Contexts |-> NoRows]
    /\ config = <<>>
    /\ audio_sources = <<>>
    /\ op = NoOp
    /\ log = NoLog
    /\ fetch = NoFetch
    /\ \E src \in SearchSources, cache \in Caches,
          split_morphemes \in BOOLEAN, ignore_inflections \in BOOLEAN,
          stop_if_one_source_has_results \in BOOLEAN :
            search = NewSearch(src, split_morphemes, ignore_inflections,
                               stop_if_one_source_has_results, cache)

NextSearch ==
    \/ search_audio_split_source
    \/ search_audio_full_text
    \/ search_audio_erase
    \/ search_audio_reading
    \/ search_audio_split_text
    \/ search_audio_part
    \/ search_audio_inflections
    \/ search_audio_first_source
    \/ search_audio_return

SpecSearch == InitSearch /\ [][NextSearch]_vars

----------------------------------------------------------------------------
(* Claims about the search.                                                 *)

\* What the three lookups of a text return from the cache of the search
VariantHits(text) ==
    search_word(search.cache, text)
    \o search_word(search.cache, to_hiragana(text))
    \o search_word(search.cache, to_katakana(text))

\* The full-text hits that the reading filter lets through
SurvivingFullTextHits ==
    IF search.src.furigana # <<>> /\ VariantHits(search.src.expr) # <<>>
    THEN SelectSeq(VariantHits(search.src.expr),
                   LAMBDA hit : pr(hit.reading) = pr(search.src.furigana))
    ELSE VariantHits(search.src.expr)

PassRank(pass) == CASE pass = "full_text" -> 1 [] pass = "reading" -> 2 [] OTHER -> 3

CallsOfPass(pass) == SelectSeq(search.calls, LAMBDA call : call.pass = pass)

\* C15: the lookups of one search come pass by pass, full text, then reading,
\* then tokens; when a full-text hit survives the reading filter there is no
\* lookup of the reading, of a token or of a tokenizer; the reading is looked
\* up only when a reading was given and no full-text hit survived; the tokens
\* are looked up only when neither the full text nor the reading left a hit.
C15_LaterPassOnlyAfterEmptyEarlierPasses ==
    /\ \A i, j \in 1..Len(search.calls) :
         i < j => PassRank(search.calls[i].pass) <= PassRank(search.calls[j].pass)
    /\ SurvivingFullTextHits # <<>> =>
         \A i \in 1..Len(search.calls) : search.calls[i].pass = "full_text"
    /\ CallsOfPass("reading") # <<>> =>
         SurvivingFullTextHits = <<>> /\ search.src.furigana # <<>>
    /\ CallsOfPass("tokens") # <<>> =>
         /\ SurvivingFullTextHits = <<>>
         /\ search.src.furigana # <<>> => VariantHits(search.src.furigana) = <<>>

\* A finished search with a reading whose full-text hit survived the filter
C15_Witness ==
    /\ search.pc = "done"
    /\ search.src.furigana # <<>>
    /\ SurvivingFullTextHits # <<>>
    /\ Len(SurvivingFullTextHits) < Len(VariantHits(search.src.expr))
    /\ search.result # <<>>

SearchWordCalls == SelectSeq(search.calls, LAMBDA call : call.fn = "search_word")

SameCanonicalReading(hit) == pr(hit.reading) = pr(search.src.furigana)

\* C17: when the input has a reading and the full-text pass found a hit,
\* the hits kept from that pass are exactly its hits whose reading has the
\* canonical form of the given reading, in the order found; when one is
\* kept, every hit of the search up to its result has that canonical reading.
C17_FullTextHitsMatchTheReading ==
    (/\ search.pc \notin {"call", "full_text", "erase"}
     /\ search.src.furigana # <<>>
     /\ VariantHits(search.src.expr) # <<>>)
    => /\ search.pc = "reading" =>
            Get(search.hits, search.src_text)
                = SelectSeq(VariantHits(search.src.expr), SameCanonicalReading)
       /\ SelectSeq(VariantHits(search.src.expr), SameCanonicalReading) # <<>> =>
            \A hit \in Range(chain(search.hits)) \cup Range(search.result) :
                SameCanonicalReading(hit)

\* The filter has run: it kept a hit whose reading is written in the other
\* kana than the given reading, and dropped another
C17_Witness ==
    /\ search.pc = "reading"
    /\ search.src.furigana # <<>>
    /\ \E hit \in Range(Get(search.hits, search.src_text)) :
         hit.reading # search.src.furigana
    /\ \E hit \in Range(VariantHits(search.src.expr)) : ~SameCanonicalReading(hit)

\* The tokens the token pass has looked up so far, in the order it did
DirectLookups == SelectSeq(CallsOfPass("tokens"), LAMBDA call : call.fn = "search_word")
DirectParts == [k \in 1..(Len(DirectLookups) \div 3) |-> DirectLookups[3 * k - 2].arg]

FirstIndex(seq, x) == CHOOSE i \in 1..Len(seq) : seq[i] = x /\ \A j \in 1..(i - 1) : seq[j] # x

\* seq is the members of tokens, each once, in the order they first occur
IsFirstOccurrenceOrder(seq, tokens) ==
    /\ Range(seq) = Range(tokens)
    /\ \A i, j \in 1..Len(seq) :
         i < j => seq[i] # seq[j] /\ FirstIndex(tokens, seq[i]) < FirstIndex(tokens, seq[j])

\* The variants of a morpheme up to the first that has a hit
VariantsOf(morpheme) ==
    IF morpheme.katakana_reading # <<>>
    THEN <<morpheme.headword, morpheme.katakana_reading,
           to_hiragana(morpheme.katakana_reading)>>
    ELSE <<morpheme.headword>>

TriedVariants(morpheme) ==
    LET variants == VariantsOf(morpheme)
        found == {i \in 1..Len(variants) : VariantHits(variants[i]) # <<>>}
    IN  IF found = {} THEN variants
        ELSE SubSeq(variants, 1, CHOOSE i \in found : \A j \in found : i <= j)

RECURSIVE TriedVariantsOfAll(_)
TriedVariantsOfAll(morphemes) ==
    IF morphemes = <<>> THEN <<>>
    ELSE TriedVariants(Head(morphemes)) \o TriedVariantsOfAll(Tail(morphemes))

\* The lookups one turn of the token loop adds to the log
NewCalls == SubSeq(search'.calls, Len(search.calls) + 1, Len(search'.calls))

PartsInFirstOccurrenceOrder ==
    search.pc \in {"parts", "inflections", "first_source", "return", "done"}
        /\ CallsOfPass("tokens") # <<>>
    => IsFirstOccurrenceOrder(DirectParts \o search.parts,
                              SelectSeq([i \in 1..Len(search.src.expr) |-> <<search.src.expr[i]>>],
                                        LAMBDA token : token[1][2] # "mark"))

PartLookedUpThenItsMorphemes ==
    search.pc = "parts" =>
        LET part == Head(search.parts)
            variants == TriedVariantsOfAll(translate(part))
        IN  /\ Len(NewCalls) >= 3
            /\ \A i \in 1..3 : NewCalls[i].fn = "search_word" /\ NewCalls[i].pass = "tokens"
            /\ NewCalls[1].arg = part
            /\ IF search.split_morphemes /\ VariantHits(part) = <<>>
               THEN /\ Len(NewCalls) = 4 + 3 * Len(variants)
                    /\ NewCalls[4].fn = "translate" /\ NewCalls[4].arg = part
                    /\ \A k \in 1..Len(variants) :
                         /\ NewCalls[3 * k + 2].fn = "search_word"
                         /\ NewCalls[3 * k + 2].arg = variants[k]
               ELSE Len(NewCalls) = 3

\* C18: the token pass looks the tokens up in the order they first occur,
\* each once; a turn of it consults the tokenizer only when split_morphemes
\* is set and the three lookups of the token returned nothing; then, morpheme
\* by morpheme, the headword, the katakana reading and the hiragana reading
\* are looked up in that order up to the first that has a hit.
C18_TokenPassOrder == [](PartsInFirstOccurrenceOrder) /\ [][PartLookedUpThenItsMorphemes]_vars

\* The token pass has consulted the tokenizer and found the morpheme by its
\* katakana reading, the second of its three variants
C18_Witness ==
    /\ search.pc = "inflections"
    /\ \E i \in 1..Len(search.calls) : search.calls[i].fn = "translate"
    /\ Len(CallsOfPass("morphemes")) = 7
    /\ chain(search.hits) # <<>>

\* What the search returns from here on with ignore_inflections as given,
\* all else equal
ResultWith(ignore_inflections) ==
    search_audio([search EXCEPT !.ignore_inflections = ignore_inflections]).result

IsInflectedHit(hit) == is_inflected(hit.word, hit.reading)

\* The hits the passes found
FoundHits == Range(chain(search.hits))

NoInflectedHitReturned ==
    search.pc = "done" /\ search.ignore_inflections =>
        \A hit \in Range(search.result) : ~IsInflectedHit(hit)

\* The first-source restriction drops the hit from every list it is in
OfAnotherSourceThanTheFirstHit(hit) ==
    /\ search.stop_if_one_source_has_results
    /\ \A i \in 1..Len(search.hits) :
         hit \in Range(search.hits[i].files)
            => hit.source_name # search.hits[i].files[1].source_name

\* The statement of C19 as it is written: a found hit that is an inflected
\* form is not returned with ignore_inflections set and is returned with it
\* unset, all else equal.
C19_InflectedHitReturnedWhenUnset ==
    /\ NoInflectedHitReturned
    /\ search.pc = "inflections" =>
         \A hit \in FoundHits :
            IsInflectedHit(hit) => /\ hit \notin Range(ResultWith(TRUE))
                                   /\ hit \in Range(ResultWith(FALSE))

\* C19: with ignore_inflections set no returned hit is an inflected form; a
\* found hit that is an inflected form is not returned with it set and, all
\* else equal, is returned with it unset unless stop_if_one_source_has_results
\* is set and the hit is of another source than the first hit of its list.
C19_InflectedHitReturnedUnlessOtherSource ==
    /\ NoInflectedHitReturned
    /\ search.pc = "inflections" =>
         \A hit \in FoundHits :
            IsInflectedHit(hit) => /\ hit \notin Range(ResultWith(TRUE))
                                   /\ \/ hit \in Range(ResultWith(FALSE))
                                      \/ OfAnotherSourceThanTheFirstHit(hit)

\* The passes of a search with ignore_inflections set found an inflected
\* form next to another hit
C19_Witness ==
    /\ search.pc = "inflections"
    /\ search.ignore_inflections
    /\ \E hit \in FoundHits : IsInflectedHit(hit) /\ hit \in Range(ResultWith(FALSE))
    /\ ResultWith(TRUE) # <<>>

\* The hits of a list that the inflection filter lets through in this search
Survivors(files) ==
    IF search.ignore_inflections
    THEN SelectSeq(files, LAMBDA hit : ~IsInflectedHit(hit))
    ELSE files

\* The hits of a list that are of the source of its first hit
OfFirstSource(files) ==
    IF files = <<>> THEN <<>>
    ELSE SelectSeq(files, LAMBDA hit : hit.source_name = files[1].source_name)

\* The lists as the two filters of this search leave them
FilteredHits == filter_first_source(filter_inflections(search)).hits

\* C20: with stop_if_one_source_has_results set, the filters leave of every
\* list the hits of one source, the source of the first hit of that list that
\* passed the inflection filter (of its first hit, when ignore_inflections is
\* unset), whatever the other lists hold; and the hits returned are the hits
\* of those lists.
C20_EachListKeepsItsFirstSource ==
    /\ search.pc = "inflections" /\ search.stop_if_one_source_has_results =>
         /\ Len(FilteredHits) = Len(search.hits)
         /\ \A i \in 1..Len(search.hits) :
              /\ FilteredHits[i].key = search.hits[i].key
              /\ FilteredHits[i].files = OfFirstSource(Survivors(search.hits[i].files))
    /\ search.pc = "done" /\ search.stop_if_one_source_has_results =>
         /\ Range(search.result) \subseteq Range(chain(search.hits))
         /\ \A hit \in Range(chain(search.hits)) :
              \E kept \in Range(search.result) : FileIdentity(kept) = FileIdentity(hit)
         /\ \A i \in 1..Len(search.hits) :
              \A hit \in Range(search.hits[i].files) :
                 hit.source_name = search.hits[i].files[1].source_name

\* Both filters are on; a list begins with an inflected form of one source
\* and the first hit that passes the inflection filter is of another source
C20_Witness ==
    /\ search.pc = "inflections"
    /\ search.stop_if_one_source_has_results
    /\ search.ignore_inflections
    /\ \E i \in 1..Len(search.hits) :
         /\ Survivors(search.hits[i].files) # <<>>
         /\ IsInflectedHit(search.hits[i].files[1])
         /\ Survivors(search.hits[i].files)[1].source_name
                # search.hits[i].files[1].source_name
    /\ \E i, j \in 1..Len(search.hits) :
         /\ Survivors(search.hits[i].files) # <<>> /\ Survivors(search.hits[j].files) # <<>>
         /\ Survivors(search.hits[i].files)[1].source_name
                # Survivors(search.hits[j].files)[1].source_name

\* The flattened hit lists the result is built from
Flattened == chain(search.hits)

\* the first hit of the flattened lists with the identity of hit
FirstWithIdentity(hit) ==
    Flattened[CHOOSE i \in 1..Len(Flattened) :
                /\ FileIdentity(Flattened[i]) = FileIdentity(hit)
                /\ \A j \in 1..(i - 1) : FileIdentity(Flattened[j]) # FileIdentity(hit)]

\* C21: no two returned hits agree on (filename, source name, reading, pitch
\* number); a returned hit is the first of the flattened hit lists with its
\* four values, and every hit of the lists has its four values returned.
C21_ResultHasNoRepeats ==
    search.pc = "done" =>
        /\ \A i, j \in 1..Len(search.result) :
             i < j => FileIdentity(search.result[i]) # FileIdentity(search.result[j])
        /\ \A hit \in Range(search.result) :
             hit \in Range(Flattened) /\ hit = FirstWithIdentity(hit)
        /\ \A hit \in Range(Flattened) :
             \E kept \in Range(search.result) : FileIdentity(kept) = FileIdentity(hit)

\* A search has returned; its lists held two hits with the same four values
\* under different headwords
C21_Witness ==
    /\ search.pc = "done"
    /\ \E i, j \in 1..Len(Flattened) :
         /\ i < j
         /\ FileIdentity(Flattened[i]) = FileIdentity(Flattened[j])
         /\ Flattened[i] # Flattened[j]
    /\ Len(search.result) > 1

\* The hits as they are handed to the sort
PreSort == ensure_unique_files(Flattened)

PositionIn(seq, hit) == CHOOSE i \in 1..Len(seq) : seq[i] = hit

SameSortKey(a, b) == pr(a.reading) = pr(b.reading) /\ a.pitch_number = b.pitch_number

Swapped(cache, i) ==
    [k \in 1..Len(cache) |->
        IF k = i THEN cache[i + 1] ELSE IF k = i + 1 THEN cache[i] ELSE cache[k]]

\* C24: a search over a cache that holds the same rows in another order
\* returns the same list, for the same text and flags.
C24_SameRowsSameResult ==
    search.pc = "call" =>
        \A i \in 1..(Len(search.cache) - 1) :
            search_audio([search EXCEPT !.cache = Swapped(search.cache, i)]).result
                = search_audio(search).result

\* No lookup of the search found a file
NothingMatched ==
    \A i \in 1..Len(search.calls) :
        search.calls[i].fn = "search_word"
            => search_word(search.cache, search.calls[i].arg) = <<>>

\* C25: a search is at a statement of search_audio that can run, or has
\* returned: it never stops before its return statement, whatever the text
\* (empty, without a parseable token) and the flags; and a search in which no
\* lookup found a file returns the empty list.
C25_NoMatchReturnsEmptyList ==
    /\ search.pc \in {"call", "full_text", "erase", "reading", "split", "parts",
                     "inflections", "first_source", "return", "done"}
    /\ search.pc = "done" /\ NothingMatched => search.result = <<>>

\* A search with every flag set has returned after looking up the text, its
\* token and the morphemes of the token without finding a file
C25_Witness ==
    /\ search.pc = "done"
    /\ NothingMatched
    /\ search.split_morphemes /\ search.ignore_inflections
    /\ search.stop_if_one_source_has_results
    /\ \E i \in 1..Len(search.calls) : search.calls[i].fn = "translate"
    /\ search.cache # <<>>

\* A search of the empty text has returned
C25_EmptyTextReturns ==
    search.pc = "done" /\ search.src.expr = <<>> /\ search.result = <<>>

----------------------------------------------------------------------------
(* Fetch pipeline (audio.py: download_and_save_tags, _download_tags,        *)
(* _download_tag, save_files; helpers/http_client.py: get_with_retry,       *)
(* download, stream_content).                                               *)

MaxAttempts == 2

\* audio_settings.attempts as configured
Attempts == 0..MaxAttempts

\* the files a batch may ask for, and the files the collection may have
AudioFiles == {"f1", "f2", "f3"}
HitLists == { <<>>, <<"f1", "f2", "f3">> }
MediaStates == { {}, {"f1"} }

\* What the network does with one request: no answer in time, another
\* transport error, an answer with a status other than 200, an answer whose
\* body arrives, an answer whose body breaks off while it is read
Responses == {"timeout", "error", "status", "ok", "ok_body_error"}

\* ajt_common.utils.clamp
clamp(min_val, val, max_val) ==
    IF val < min_val THEN min_val ELSE IF val > max_val THEN max_val ELSE val

\* get_with_retry that stays in its loop after any failed request
get_with_retry_on_any_error(sent, attempts, resp) ==
    IF resp \in {"timeout", "error"}
    THEN IF sent < clamp(0, attempts - 1, 99) THEN "continue"
         ELSE IF resp = "timeout" THEN "Timeout" ELSE "OSError"
    ELSE "response"

\* AjtHttpClient.get_with_retry at its next request, `sent` requests after its
\* start: the loop of range(clamp(0, attempts - 1, 99)) catches Timeout only,
\* the request after the loop catches nothing
get_with_retry(sent, attempts, resp) ==
    IF resp = "timeout"
    THEN IF sent < clamp(0, attempts - 1, 99) THEN "continue" ELSE "Timeout"
    ELSE IF resp = "error" THEN "OSError"
    ELSE "response"

\* AjtHttpClient.stream_content of a response with status 200
stream_content(resp) ==
    IF resp = "ok_body_error" THEN "RequestException" ELSE "DownloadedData"

\* download without its except clause
download_without_except(sent, attempts, resp) ==
    LET got == get_with_retry(sent, attempts, resp)
    IN  CASE got = "continue" -> "running"
          [] got \in {"Timeout", "OSError"} -> "RequestException"
          [] resp = "status" -> "AudioManagerException"
          [] OTHER -> stream_content(resp)

\* AudioManagerHttpClient.download, as far as the request just answered
\* takes it: still running, or how _download_tag ends
download(sent, attempts, resp) ==
    LET got == get_with_retry(sent, attempts, resp)
    IN  CASE got = "continue" -> "running"
          [] got \in {"Timeout", "OSError"} -> "AudioManagerException"
          [] resp = "status" -> "AudioManagerException"
          [] OTHER -> stream_content(resp)

\* executor.submit(self._download_tag, audio_file=audio_file)
Task(audio_file) == [file |-> audio_file, sent |-> 0, result |-> "running", last |-> "none"]

\* only_missing
only_missing(media, files) == SelectSeq(files, LAMBDA file : file \notin media)

\* download_and_save_tags(hits, on_finish=...) as it is entered
NewFetch(hits, media, attempts) ==
    [pc |-> "call", hits |-> hits, media |-> media, attempts |-> attempts,
     tasks |-> <<>>, completed |-> <<>>, i |-> 0,
     successes |-> <<>>, fails |-> <<>>, written |-> {},
     on_finish |-> 0, reported |-> <<>>]

\* download_and_save_tags and the submit loop of _download_tags
download_tags(f) ==
    IF Len(f.hits) < 1
    THEN [f EXCEPT !.pc = "returned"]
    ELSE [f EXCEPT !.tasks = [k \in 1..Len(only_missing(f.media, f.hits)) |->
                                 Task(only_missing(f.media, f.hits)[k])],
                   !.pc = "pool"]

\* one request of the task t and what follows from its answer
request(f, t, resp) ==
    LET result == download(f.tasks[t].sent, f.attempts, resp)
    IN  [f EXCEPT !.tasks[t] = [@ EXCEPT !.sent = @ + 1, !.result = result, !.last = resp],
                  !.completed = IF result = "running" THEN @ ELSE Append(@, t)]

\* save_files that leaves its loop at the first failed download
save_future_until_first_fail(f) ==
    LET future == f.tasks[f.completed[f.i]]
    IN  CASE future.result = "DownloadedData" ->
               [f EXCEPT !.written = @ \cup {future.file},
                         !.successes = Append(@, future.file),
                         !.i = @ + 1]
          [] future.result = "AudioManagerException" ->
               [f EXCEPT !.fails = Append(@, future.file), !.i = Len(f.completed) + 1]
          [] OTHER -> [f EXCEPT !.pc = "raised"]

\* save_files: one turn of the loop over the futures
save_future(f) ==
    LET future == f.tasks[f.completed[f.i]]
    IN  CASE future.result = "DownloadedData" ->
               [f EXCEPT !.written = @ \cup {future.file},
                         !.successes = Append(@, future.file),
                         !.i = @ + 1]
          [] future.result = "AudioManagerException" ->
               [f EXCEPT !.fails = Append(@, future.file), !.i = @ + 1]
          [] OTHER -> [f EXCEPT !.pc = "raised"]

\* download_and_save_tags
download_and_save_tags ==
    /\ fetch.pc = "call"
    /\ fetch' = download_tags(fetch)
    /\ UNCHANGED <<cacheVars, config, audio_sources, op, log, search>>

\* _download_tag in a worker of the pool: get_with_timeout is called once
get_with_timeout(t, resp) ==
    /\ fetch.pc = "pool"
    /\ t \in 1..Len(fetch.tasks)
    /\ fetch.tasks[t].result = "running"
    /\ fetch' = request(fetch, t, resp)
    /\ UNCHANGED <<cacheVars, config, audio_sources, op, log, search>>

\* _download_tags returns once as_completed has yielded every future; the
\* success callback of the QueryOp calls save_files
download_tags_return ==
    /\ fetch.pc = "pool"
    /\ Len(fetch.completed) = Len(fetch.tasks)
    /\ fetch' = [fetch EXCEPT !.pc = "save", !.i = 1]
    /\ UNCHANGED <<cacheVars, config, audio_sources, op, log, search>>

\* save_files: the next future
save_files_future ==
    /\ fetch.pc = "save"
    /\ fetch.i <= Len(fetch.completed)
    /\ fetch' = save_future(fetch)
    /\ UNCHANGED <<cacheVars, config, audio_sources, op, log, search>>

\* save_files: on_finish(results)
save_files_on_finish ==
    /\ fetch.pc = "save"
    /\ fetch.i > Len(fetch.completed)
    /\ fetch' = [fetch EXCEPT !.on_finish = @ + 1,
                              !.reported = <<fetch.successes, fetch.fails>>,
                              !.pc = "done"]
    /\ UNCHANGED <<cacheVars, config, audio_sources, op, log, search>>

InitFetch ==
    /\ db = EmptyTables
    /\ con = [b \in Buddies |-> ClosedCon]
    /\ holds = [k \in Contexts |-> 0]
    /\ pc = [k \in Contexts |-> "out"]
    /\ arg = [k \in Contexts |-> NoArg]
    /\ raised = [k \in Contexts |-> "none"]
    /\ pre = [k \in Contexts |-> NoRows]
    /\ config = <<>>
    /\ audio_sources = <<>>
    /\ op = NoOp
    /\ log = NoLog
    /\ search = NoSearch
    /\ \E hits \in HitLists, media \in MediaStates, attempts \in Attempts :
          fetch = NewFetch(hits, media, attempts)

NextFetch ==
    \/ download_and_save_tags
    \/ \E t \in 1..Cardinality(AudioFiles), resp \in Responses : get_with_timeout(t, resp)
    \/ download_tags_return
    \/ save_files_future
    \/ save_files_on_finish

SpecFetch == InitFetch /\ [][NextFetch]_vars

----------------------------------------------------------------------------
(* Claims about the fetch pipeline.                                         *)

\* the batch has left the pool: every task has ended
PoolLeft == fetch.pc \in {"save", "raised", "done"}

\* the tasks that ended with the given result
TasksWith(result) == {t \in 1..Len(fetch.tasks) : fetch.tasks[t].result = result}

\* C28 (as stated): a fetch configured with N attempts sends at most N
\* requests, for every N >= 0.
C28_AtMostNRequests ==
    fetch.pc \in {"pool", "save", "raised", "done"} =>
        \A t \in 1..Len(fetch.tasks) : fetch.tasks[t].sent <= fetch.attempts

\* C28 (amended): a fetch configured with N attempts sends at most N requests
\* when N >= 1 and exactly one when N = 0 (never more than 100); it is still
\* running after a request only if that request timed out and fewer than N
\* requests have been sent; a transport error other than a timeout and a
\* status other than 200 end it as a failure at once.
C28_RetryOnlyOnTimeoutWithinBudget ==
    fetch.pc \in {"pool", "save", "raised", "done"} =>
        \A t \in 1..Len(fetch.tasks) :
            LET task == fetch.tasks[t]
            IN  /\ task.sent <= clamp(1, fetch.attempts, 100)
                /\ (task.result # "running") => task.sent >= 1
                /\ (task.result = "running" /\ task.sent >= 1) =>
                       (task.last = "timeout" /\ task.sent < fetch.attempts)
                /\ task.last \in {"ok", "ok_body_error", "status", "error"} =>
                       task.result # "running"
                /\ task.last \in {"status", "error"} =>
                       task.result = "AudioManagerException"

\* C28 witness: with two attempts configured a fetch has timed out twice and
\* failed, and another one has got its response at the second request.
C28_Witness ==
    /\ fetch.pc = "pool"
    /\ fetch.attempts = 2
    /\ \E t, u \in 1..Len(fetch.tasks) :
          /\ fetch.tasks[t].sent = 2
          /\ fetch.tasks[t].last = "timeout"
          /\ fetch.tasks[t].result = "AudioManagerException"
          /\ fetch.tasks[u].sent = 2
          /\ fetch.tasks[u].last = "ok"
          /\ fetch.tasks[u].result = "DownloadedData"

\* C26: when every download of a batch either succeeds or times out at every
\* attempt, save_files does not raise, takes every future in turn, and
\* on_finish gets one success per downloaded file and one failure per
\* timed-out file, the failure naming the file that was asked for.
C26_TimeoutsBecomeFailuresOfTheirFiles ==
    ( /\ PoolLeft
      /\ \A t \in 1..Len(fetch.tasks) :
            \/ fetch.tasks[t].last = "ok"
            \/ fetch.tasks[t].last = "timeout" ) =>
        /\ fetch.pc # "raised"
        /\ fetch.pc = "done" =>
              /\ fetch.on_finish = 1
              /\ fetch.reported = <<fetch.successes, fetch.fails>>
              /\ Len(fetch.successes) = Cardinality({t \in 1..Len(fetch.tasks) : fetch.tasks[t].last = "ok"})
              /\ Len(fetch.fails) = Cardinality({t \in 1..Len(fetch.tasks) : fetch.tasks[t].last = "timeout"})
              /\ Range(fetch.successes) = {fetch.tasks[t].file : t \in {u \in 1..Len(fetch.tasks) : fetch.tasks[u].last = "ok"}}
              /\ Range(fetch.fails) = {fetch.tasks[t].file : t \in {u \in 1..Len(fetch.tasks) : fetch.tasks[u].last = "timeout"}}
              /\ fetch.written = Range(fetch.successes)

\* C26 witness: three files were asked for, one timed out at each of its two
\* attempts, and the batch has reported two successes and one failure.
C26_Witness ==
    /\ fetch.pc = "done"
    /\ fetch.attempts = 2
    /\ Len(fetch.tasks) = 3
    /\ fetch.tasks[2].last = "timeout"
    /\ fetch.tasks[2].sent = 2
    /\ Len(fetch.reported[1]) = 2
    /\ fetch.reported[2] = <<fetch.tasks[2].file>>

\* C27: no failed download is fatal to the batch: save_files never raises,
\* and when it is through every submitted file is in exactly one of successes
\* and fails and on_finish has been called.
C27_NoFailureIsFatal ==
    PoolLeft =>
        /\ fetch.pc # "raised"
        /\ fetch.pc = "done" =>
              /\ Len(fetch.successes) + Len(fetch.fails) = Len(fetch.tasks)
              /\ Range(fetch.successes) \cap Range(fetch.fails) = {}
              /\ fetch.on_finish = 1

\* The part of C27 that holds: a download that failed by a timeout, another
\* transport error or a status other than 200 is an AudioManagerException.
C27_TransportFailuresAreCaught ==
    PoolLeft =>
        \A t \in 1..Len(fetch.tasks) :
            fetch.tasks[t].last \in {"timeout", "error", "status"} =>
                fetch.tasks[t].result = "AudioManagerException"

\* C29: the reported partition is a function of the outcome of each file and
\* not of the order of completion: successes holds exactly the files whose
\* download returned data and fails exactly those whose download raised an
\* AudioManagerException, in whatever order the futures completed.
C29_PartitionIgnoresCompletionOrder ==
    fetch.pc = "done" =>
        /\ Range(fetch.reported[1]) = {fetch.tasks[t].file : t \in TasksWith("DownloadedData")}
        /\ Range(fetch.reported[2]) = {fetch.tasks[t].file : t \in TasksWith("AudioManagerException")}
        /\ Len(fetch.reported[1]) = Cardinality(TasksWith("DownloadedData"))
        /\ Len(fetch.reported[2]) = Cardinality(TasksWith("AudioManagerException"))

\* C29 witness: the futures completed in another order than they were
\* submitted, a failure first, and both lists of the report are filled.
C29_Witness ==
    /\ fetch.pc = "done"
    /\ fetch.completed = <<3, 1, 2>>
    /\ fetch.tasks[3].result = "AudioManagerException"
    /\ fetch.tasks[1].result = "DownloadedData"
    /\ fetch.tasks[2].result = "DownloadedData"
    /\ fetch.reported = << <<fetch.tasks[1].file, fetch.tasks[2].file>>, <<fetch.tasks[3].file>> >>

\* C30: a batch with a non-empty hits list downloads only the files the
\* collection lacks, splits the results only after every task has ended, and
\* ends with on_finish invoked exactly once on the complete split.
C30_CompleteResultReportedOnce ==
    (fetch.pc \in {"pool", "save", "raised", "done"}) =>
        /\ [t \in 1..Len(fetch.tasks) |-> fetch.tasks[t].file] = only_missing(fetch.media, fetch.hits)
        /\ PoolLeft => TasksWith("running") = {}
        /\ fetch.on_finish = (IF fetch.pc \in {"raised", "done"} THEN 1 ELSE 0)
        /\ fetch.pc = "done" =>
              Len(fetch.reported[1]) + Len(fetch.reported[2]) = Len(fetch.tasks)

\* The part of C30 that holds: only missing files are submitted, save_files
\* starts after the last task has ended, and on_finish is invoked at most
\* once, after the loop over all futures.
C30_NeverReportedEarly ==
    (fetch.pc \in {"pool", "save", "raised", "done"}) =>
        /\ [t \in 1..Len(fetch.tasks) |-> fetch.tasks[t].file] = only_missing(fetch.media, fetch.hits)
        /\ PoolLeft => TasksWith("running") = {}
        /\ fetch.on_finish = (IF fetch.pc = "done" THEN 1 ELSE 0)
        /\ fetch.pc = "done" =>
              Len(fetch.reported[1]) + Len(fetch.reported[2]) = Len(fetch.tasks)

----------------------------------------------------------------------------
(* The pitch accent table (database/pitch_buddy.py).  The table is the     *)
(* sequence of its rows in the order of insertion.  A TEXT value that is   *)
(* compared or converted is the sequence of its characters, a digit being  *)
(* the number it stands for and another character a number above 9.        *)

MaxPitchRows == 3

\* sqlite compares TEXT values byte by byte (the BINARY collation)
RECURSIVE BinaryLess(_, _)
BinaryLess(a, b) ==
    IF b = <<>> THEN FALSE
    ELSE IF a = <<>> THEN TRUE
    ELSE IF Head(a) # Head(b) THEN Head(a) < Head(b)
    ELSE BinaryLess(Tail(a), Tail(b))

\* int(text) of a string of digits
RECURSIVE int(_)
int(text) ==
    IF text = <<>> THEN 0
    ELSE 10 * int(SubSeq(text, 1, Len(text) - 1)) + text[Len(text)]

\* AccDictRawTSVEntry
PitchEntry(headword, katakana_reading, html_notation, pitch_number, frequency) ==
    [headword |-> headword, katakana_reading |-> katakana_reading,
     html_notation |-> html_notation, pitch_number |-> pitch_number,
     frequency |-> frequency]

\* The entries a provider may hold: one word read in two ways, with the pitch
\* numbers 2 and 10, twice the same entry but for its frequency, and another
\* word that shares a reading with the first
PitchEntries ==
    { PitchEntry(<<21>>, <<11>>, "a", <<2>>, <<1>>),
      PitchEntry(<<21>>, <<11>>, "b", <<1, 0>>, <<1>>),
      PitchEntry(<<21>>, <<11>>, "a", <<2>>, <<2>>),
      PitchEntry(<<21>>, <<12>>, "c", <<2>>, <<1>>),
      PitchEntry(<<22>>, <<11>>, "d", <<0>>, <<3>>) }

PitchProviders == {"user", "bundled"}

PitchWords == {<<21>>, <<22>>, <<11>>, <<12>>}

\* the rows executemany gets in one call
PitchBatches ==
    {<<e>> : e \in PitchEntries} \cup {<<e, f>> : e, f \in PitchEntries}

\* the row insert_pitch_accent_data makes of an entry
PitchRow(row, provider_name) ==
    [headword |-> row.headword, katakana_reading |-> row.katakana_reading,
     html_notation |-> row.html_notation, pitch_number |-> row.pitch_number,
     frequency |-> int(row.frequency), source |-> provider_name]

\* INSERT INTO pitch_accents_formatted ... over the rows, in their order
insert_pitch_accent_rows(t, rows, provider_name) ==
    [t EXCEPT !.pitch_accents_formatted =
        @ \o [i \in 1..Len(rows) |-> PitchRow(rows[i], provider_name)]]

\* DELETE FROM pitch_accents_formatted WHERE source = ?
delete_pitch_accents_where(t, provider_name) ==
    [t EXCEPT !.pitch_accents_formatted = SelectSeq(@, LAMBDA r : r.source # provider_name)]

\* DELETE FROM pitch_accents_formatted
delete_pitch_accents(t) == [t EXCEPT !.pitch_accents_formatted = <<>>]

PITCH_RETRIEVE_KEYS == <<"katakana_reading", "html_notation", "pitch_number">>

\* the columns select_keys names, of one row
Projection(row, select_keys) == [i \in 1..Len(select_keys) |-> row[select_keys[i]]]

\* WHERE ( headword = ? OR katakana_reading = ? )
MatchesWord(row, word) == row.headword = word \/ row.katakana_reading = word

\* the rows of the inner SELECT when the preferred provider is not looked at
inner_results_of_all_providers(rows, word, prefer_provider_name) ==
    SelectSeq(rows, LAMBDA r : MatchesWord(r, word))

\* preferred_results UNION ALL all_results WHERE NOT EXISTS (preferred_results)
inner_results(rows, word, prefer_provider_name) ==
    LET all_results == SelectSeq(rows, LAMBDA r : MatchesWord(r, word))
        preferred_results == SelectSeq(all_results, LAMBDA r : r.source = prefer_provider_name)
    IN  preferred_results \o (IF preferred_results = <<>> THEN all_results ELSE <<>>)

\* SELECT DISTINCT: a row whose selected columns were seen before is dropped
RECURSIVE select_distinct(_, _)
select_distinct(rows, select_keys) ==
    IF rows = <<>> THEN <<>>
    ELSE LET init == select_distinct(SubSeq(rows, 1, Len(rows) - 1), select_keys)
             last == rows[Len(rows)]
         IN  IF \E i \in 1..Len(init) : Projection(init[i], select_keys) = Projection(last, select_keys)
             THEN init ELSE Append(init, last)

\* ORDER BY frequency DESC, pitch_number ASC, katakana_reading ASC; pitch_number
\* and katakana_reading are TEXT columns
PitchOrderLess(a, b) ==
    \/ a.frequency > b.frequency
    \/ /\ a.frequency = b.frequency
       /\ \/ BinaryLess(a.pitch_number, b.pitch_number)
          \/ /\ a.pitch_number = b.pitch_number
             /\ BinaryLess(a.katakana_reading, b.katakana_reading)

\* the sorter: rows with equal keys stay in the order they came in
RECURSIVE order_by(_)
order_by(rows) ==
    IF rows = <<>> THEN <<>>
    ELSE LET init == order_by(SubSeq(rows, 1, Len(rows) - 1))
             last == rows[Len(rows)]
             k == Cardinality({i \in 1..Len(init) : ~PitchOrderLess(last, init[i])})
         IN  SubSeq(init, 1, k) \o <<last>> \o SubSeq(init, k + 1, Len(init))

\* the rows search_pitch_accents returns, with all their columns
search_pitch_rows(t, word, prefer_provider_name, select_keys) ==
    order_by(select_distinct(
        inner_results(t.pitch_accents_formatted, word, prefer_provider_name), select_keys))

\* PitchSqlite3Buddy.search_pitch_accents
search_pitch_accents(t, word, prefer_provider_name, select_keys) ==
    LET rows == search_pitch_rows(t, word, prefer_provider_name, select_keys)
    IN  [i \in 1..Len(rows) |-> Projection(rows[i], select_keys)]

\* db.insert_pitch_accent_data(rows, provider_name): executemany, then commit
insert_pitch_accent_data(rows, provider_name) ==
    /\ can_execute(con[TheBuddy])
    /\ Len(View(con[TheBuddy], db).pitch_accents_formatted) + Len(rows) <= MaxPitchRows
    /\ LET c == con[TheBuddy]
           e == cur_execute(c, db, insert_pitch_accent_rows(View(c, db), rows, provider_name))
           r == con_commit(e.c, e.d)
       IN  /\ con' = [con EXCEPT ![TheBuddy] = r.c]
           /\ db' = r.d
    /\ raised' = [raised EXCEPT ![Writer] = "none"]
    /\ UNCHANGED <<holds, pc, arg, pre, managerVars>>

\* db.clear_pitch_accents(provider_name)
clear_pitch_accents(provider_name) ==
    /\ can_execute(con[TheBuddy])
    /\ LET c == con[TheBuddy]
           e == cur_execute(c, db, delete_pitch_accents_where(View(c, db), provider_name))
           r == con_commit(e.c, e.d)
       IN  /\ con' = [con EXCEPT ![TheBuddy] = r.c]
           /\ db' = r.d
    /\ raised' = [raised EXCEPT ![Writer] = "none"]
    /\ UNCHANGED <<holds, pc, arg, pre, managerVars>>

\* db.clear_pitch_accents_table()
clear_pitch_accents_table ==
    /\ can_execute(con[TheBuddy])
    /\ LET c == con[TheBuddy]
           e == cur_execute(c, db, delete_pitch_accents(View(c, db)))
           r == con_commit(e.c, e.d)
       IN  /\ con' = [con EXCEPT ![TheBuddy] = r.c]
           /\ db' = r.d
    /\ raised' = [raised EXCEPT ![Writer] = "none"]
    /\ UNCHANGED <<holds, pc, arg, pre, managerVars>>

NextPitch ==
    \/ direct_start_session
    \/ \E rows \in PitchBatches, provider_name \in PitchProviders :
          insert_pitch_accent_data(rows, provider_name)
    \/ \E provider_name \in PitchProviders : clear_pitch_accents(provider_name)
    \/ clear_pitch_accents_table

SpecPitch == Init /\ [][NextPitch]_vars

----------------------------------------------------------------------------
(* Claims about the pitch accent table.                                     *)

ALL_PITCH_KEYS ==
    <<"headword", "katakana_reading", "html_notation", "pitch_number", "frequency", "source">>

PitchSelections == {PITCH_RETRIEVE_KEYS, ALL_PITCH_KEYS}

\* the rows of the table that match the word, and those of them of a provider
MatchingRows(word) ==
    {r \in Range(db.pitch_accents_formatted) : MatchesWord(r, word)}

MatchingRowsOf(word, provider_name) ==
    {r \in MatchingRows(word) : r.source = provider_name}

\* C31: search_pitch_accents(word, p) returns the matching rows of p and no
\* other row when p has a matching row, and all matching rows of all
\* providers when it has none; a row that matches the word neither by its
\* headword nor by its reading is never returned.
C31_PreferredProviderRowsOrAllMatches ==
    \A word \in PitchWords, p \in PitchProviders, select_keys \in PitchSelections :
        Range(search_pitch_accents(db, word, p, select_keys)) =
            {Projection(r, select_keys) :
                r \in (IF MatchingRowsOf(word, p) # {} THEN MatchingRowsOf(word, p)
                       ELSE MatchingRows(word))}

\* C31 witness: both providers have a row for the word met by its reading, the
\* table holds a row that does not match, and the search that prefers "user"
\* returns the one row of "user" while the search for a word "user" does not
\* have returns the row of "bundled".
C31_Witness ==
    /\ Len(db.pitch_accents_formatted) = 3
    /\ MatchingRowsOf(<<12>>, "user") # {}
    /\ MatchingRowsOf(<<12>>, "bundled") = {}
    /\ MatchingRowsOf(<<11>>, "user") # {}
    /\ MatchingRowsOf(<<11>>, "bundled") # {}
    /\ Len(search_pitch_accents(db, <<11>>, "user", ALL_PITCH_KEYS)) = 1
    /\ search_pitch_accents(db, <<11>>, "user", ALL_PITCH_KEYS)[1][6] = "user"
    /\ Len(search_pitch_accents(db, <<22>>, "user", ALL_PITCH_KEYS)) = 1
    /\ search_pitch_accents(db, <<22>>, "user", ALL_PITCH_KEYS)[1][6] = "bundled"

\* the order the rows are said to come in: pitch numbers compared as numbers
NumericOrderLess(a, b) ==
    \/ a.frequency > b.frequency
    \/ /\ a.frequency = b.frequency
       /\ \/ int(a.pitch_number) < int(b.pitch_number)
          \/ /\ int(a.pitch_number) = int(b.pitch_number)
             /\ BinaryLess(a.katakana_reading, b.katakana_reading)

\* C32: the rows search_pitch_accents returns come by frequency descending,
\* then pitch number ascending as a number, then reading ascending, whatever
\* the table holds and whichever columns are selected.
C32_RowsInFrequencyPitchReadingOrder ==
    \A word \in PitchWords, p \in PitchProviders, select_keys \in PitchSelections :
        LET rows == search_pitch_rows(db, word, p, select_keys)
        IN  \A i, j \in 1..Len(rows) : i < j => ~NumericOrderLess(rows[j], rows[i])

----------------------------------------------------------------------------
(* The version table (database/version_buddy.py) and the store used through *)
(* one connection, one operation after the other.                           *)

SchemaNames == {"audio", "pitch"}

\* the numbers set_db_version is called with
Versions == {0, 1, 2}

VersionRow(schema_name, number) == [schema_name |-> schema_name, number |-> number]

\* an INSERT without the ON CONFLICT clause into a table without the key
set_version_row_without_conflict_clause(t, schema_name, value) ==
    [t EXCEPT !.version = @ \cup {VersionRow(schema_name, value)}]

\* INSERT INTO version ... ON CONFLICT(schema_name) DO UPDATE SET number = :number
set_version_row(t, schema_name, value) ==
    IF \E r \in t.version : r.schema_name = schema_name
    THEN [t EXCEPT !.version =
            {IF r.schema_name = schema_name THEN [r EXCEPT !.number = value] ELSE r : r \in @}]
    ELSE [t EXCEPT !.version = @ \cup {VersionRow(schema_name, value)}]

Sqlite3BuddyVersionError == "Sqlite3BuddyVersionError"

\* VersionSqlite3Buddy.get_db_version: the number it returns or the exception
\* it raises; LIMIT 1 takes whichever row comes first
get_db_version(t, schema_name) ==
    LET result == {r \in t.version : r.schema_name = schema_name}
    IN  IF result = {} THEN {[number |-> 0, exc |-> Sqlite3BuddyVersionError]}
        ELSE {IF r.number > 0 THEN [number |-> r.number, exc |-> "none"]
              ELSE [number |-> 0, exc |-> "AssertionError"] : r \in result}

\* the documents the store is given here: two that differ in the name of the
\* dictionary and one whose first file lacks its reading
TableDocs == {GoodDoc, FullDoc("E", TRUE, 0), FullDoc("D", TRUE, 1)}

\* the urls set_original_url is called with
TableUrls == {UrlOf(s) : s \in SourceNames}

\* db.set_db_version(schema_name, value): execute, then commit
direct_set_db_version(schema_name, value) ==
    /\ LET c == con[TheBuddy]
           e == cur_execute(c, db, set_version_row(View(c, db), schema_name, value))
           r == IF con_property(c) # "none" THEN [c |-> c, d |-> db] ELSE con_commit(e.c, e.d)
       IN  /\ con' = [con EXCEPT ![TheBuddy] = r.c]
           /\ db' = r.d
           /\ raised' = [raised EXCEPT ![Writer] = con_property(c)]
    /\ UNCHANGED <<holds, pc, arg, pre, managerVars>>

\* db.set_original_url(source_name, new_url): execute, then commit
direct_set_original_url(s, url) ==
    /\ LET c == con[TheBuddy]
           e == cur_execute(c, db, update_original_url(View(c, db), s, url))
           r == IF con_property(c) # "none" THEN [c |-> c, d |-> db] ELSE con_commit(e.c, e.d)
       IN  /\ con' = [con EXCEPT ![TheBuddy] = r.c]
           /\ db' = r.d
           /\ raised' = [raised EXCEPT ![Writer] = con_property(c)]
    /\ UNCHANGED <<holds, pc, arg, pre, managerVars>>

\* db.clear_all_audio_data(): executescript commits what is pending and runs
\* its three DELETEs
direct_clear_all_audio_data ==
    /\ LET c == con[TheBuddy]
           c1 == con_commit(c, db)
           r == IF con_property(c) # "none" THEN [c |-> c, d |-> db]
                ELSE cur_executescript(c1.c, c1.d,
                        delete_all(delete_all(delete_all(c1.d, clear_all_queries[1]),
                                              clear_all_queries[2]), clear_all_queries[3]))
       IN  /\ con' = [con EXCEPT ![TheBuddy] = r.c]
           /\ db' = r.d
           /\ raised' = [raised EXCEPT ![Writer] = con_property(c)]
    /\ UNCHANGED <<holds, pc, arg, pre, managerVars>>

\* db.remove_data(s) on a buddy with a connection; pre keeps the name of the
\* source if the call found its meta row
remove_data_call(s) ==
    /\ can_execute(con[TheBuddy])
    /\ LET c == con[TheBuddy]
           r == remove_data_from(c, db, s, 1)
       IN
        /\ con' = [con EXCEPT ![TheBuddy] = r.c]
        /\ db' = r.d
        /\ pre' = [pre EXCEPT ![Writer] = [NoRows EXCEPT !.meta =
                        {[source_name |-> x.source_name] : x \in RowsOf(View(c, db), s).meta}]]
        /\ raised' = [raised EXCEPT ![Writer] = "none"]
    /\ UNCHANGED <<holds, pc, arg, managerVars>>

NextTables ==
    \/ direct_start_session
    \/ direct_end_session
    \/ \E s \in SourceNames, data \in TableDocs : direct_insert_data(s, data)
    \/ \E s \in SourceNames : remove_data_call(s)
    \/ direct_clear_all_audio_data
    \/ \E s \in SourceNames, url \in TableUrls : direct_set_original_url(s, url)
    \/ \E schema_name \in {"audio"}, value \in {1} : direct_set_db_version(schema_name, value)
    \/ \E rows \in {[i \in 1..MaxPitchRows |-> PitchEntry(<<21>>, <<11>>, "a", <<2>>, <<1>>)]} :
          insert_pitch_accent_data(rows, "bundled")

SpecTables == Init /\ [][NextTables]_vars

NextVersion ==
    \/ direct_start_session
    \/ direct_end_session
    \/ \E schema_name \in SchemaNames, value \in Versions : direct_set_db_version(schema_name, value)
    \/ \E rows \in {<<PitchEntry(<<21>>, <<11>>, "a", <<2>>, <<1>>)>>} :
          insert_pitch_accent_data(rows, "bundled")

SpecVersion == Init /\ [][NextVersion]_vars

----------------------------------------------------------------------------
(* Claims about the version table.                                          *)

\* what get_db_version(schema_name) gives on the buddy's connection
VersionRead(schema_name) == get_db_version(View(con[TheBuddy], db), schema_name)

SetsVersion(schema_name, value) ==
    direct_set_db_version(schema_name, value) /\ can_execute(con[TheBuddy])

----------------------------------------------------------------------------
(* Claims about the audio tables used through one connection.               *)

\* the tables as the buddy's connection reads them
BuddyView == View(con[TheBuddy], db)

\* AudioSqlite3Buddy.get_source_by_name: the rows its SELECT finds (fetchone
\* takes the first; none: the result is None)
get_source_by_name(t, source_name) ==
    {<<m.source_name, m.original_url>> : m \in {x \in t.meta :
        /\ x.source_name = source_name
        /\ \E h \in t.headwords : h.source_name = x.source_name
        /\ \E f \in t.files : f.source_name = x.source_name}}

\* s has a meta row, a headwords row and a files row
HasAllThreeKinds(t, s) ==
    /\ \E m \in t.meta : m.source_name = s
    /\ \E h \in t.headwords : h.source_name = s
    /\ \E f \in t.files : f.source_name = s

\* C34: is_source_cached(s), get_cached_sources() and get_source_by_name(s)
\* report s exactly when s has a meta row, a headwords row and a files row.
C34_PresenceNeedsAllThreeKinds ==
    \A s \in SourceNames :
        /\ is_source_cached(BuddyView, s) <=> HasAllThreeKinds(BuddyView, s)
        /\ (\E i \in DOMAIN get_cached_sources(BuddyView) :
                get_cached_sources(BuddyView)[i][1] = s) <=> HasAllThreeKinds(BuddyView, s)
        /\ (get_source_by_name(BuddyView, s) # {}) <=> HasAllThreeKinds(BuddyView, s)
        /\ Cardinality(get_source_by_name(BuddyView, s)) <= 1

\* C34 witness: A has a meta row and headwords rows but no files row and is
\* reported absent by all three, B has all three kinds and is reported.
C34_Witness ==
    /\ \E m \in BuddyView.meta : m.source_name = "A"
    /\ \E h \in BuddyView.headwords : h.source_name = "A"
    /\ ~ \E f \in BuddyView.files : f.source_name = "A"
    /\ ~is_source_cached(BuddyView, "A")
    /\ get_source_by_name(BuddyView, "A") = {}
    /\ is_source_cached(BuddyView, "B")
    /\ get_source_by_name(BuddyView, "B") # {}
    /\ Len(get_cached_sources(BuddyView)) = 1

\* the file names of the files rows of s, and (dictionary name, origin url) of s
FileNamesOf(t, s) == {f.file_name : f \in {x \in t.files : x.source_name = s}}

OriginOf(t, s) ==
    {<<x.dictionary_name, x.original_url>> : x \in {y \in t.meta : y.source_name = s}}

\* C35: distinct_file_count(S) is 0 for an empty S, the number of files of s
\* for one cached source s, and for two cached sources the number of file
\* names of both taken together when their dictionary name and origin url are
\* equal, and the sum of their numbers of files when either differs.
C35_FilesToldApartByDictionaryAndOrigin ==
    LET t == BuddyView
        cached(s) == OriginOf(t, s) # {}
    IN  /\ distinct_file_count(t, <<>>) = 0
        /\ \A s \in SourceNames :
              cached(s) => distinct_file_count(t, <<s>>) = Cardinality(FileNamesOf(t, s))
        /\ \A a, b \in SourceNames :
              (a # b /\ cached(a) /\ cached(b)) =>
                  distinct_file_count(t, <<a, b>>) =
                      IF OriginOf(t, a) = OriginOf(t, b)
                      THEN Cardinality(FileNamesOf(t, a) \cup FileNamesOf(t, b))
                      ELSE Cardinality(FileNamesOf(t, a)) + Cardinality(FileNamesOf(t, b))

\* C35 witness: A and B hold the same file names under the same dictionary
\* name and differ in their origin url; each file is counted twice.
C35_Witness ==
    /\ FileNamesOf(BuddyView, "A") = FileNames
    /\ FileNamesOf(BuddyView, "B") = FileNames
    /\ \E d \in {"D", "E"} :
          /\ OriginOf(BuddyView, "A") = {<<d, UrlOf("A")>>}
          /\ OriginOf(BuddyView, "B") = {<<d, UrlOf("B")>>}
    /\ distinct_file_count(BuddyView, <<"A", "B">>) = 2 * Cardinality(FileNames)

\* A and B hold the same file names under the same dictionary name and the
\* same origin url; each file is counted once.
C35_CountedOnce ==
    /\ FileNamesOf(BuddyView, "A") = FileNames
    /\ FileNamesOf(BuddyView, "B") = FileNames
    /\ OriginOf(BuddyView, "A") = {<<"D", UrlOf("A")>>}
    /\ OriginOf(BuddyView, "B") = {<<"D", UrlOf("A")>>}
    /\ distinct_file_count(BuddyView, <<"A", "B">>) = Cardinality(FileNames)

\* A and B hold the same file names with the same origin url and differ in
\* their dictionary name; each file is counted twice.
C35_CountedTwiceByDictionary ==
    /\ FileNamesOf(BuddyView, "A") = FileNames
    /\ FileNamesOf(BuddyView, "B") = FileNames
    /\ OriginOf(BuddyView, "A") = {<<"D", NULL>>}
    /\ OriginOf(BuddyView, "B") = {<<"E", NULL>>}
    /\ distinct_file_count(BuddyView, <<"A", "B">>) = 2 * Cardinality(FileNames)

\* a row without the place it has in the scan of its table
Unplaced(rows) == {[x \in (DOMAIN r) \ {"rowid"} |-> r[x]] : r \in rows}

\* the rows of s, table by table, without their places
ContentOf(t, s) == [n \in TableNames |-> Unplaced(RowsOf(t, s)[n])]

\* C37: there is never more than one meta row per source name nor more than
\* one files row per (source name, file name); a source with files rows has
\* its meta row, so that insert_data for a name that is present fails before
\* it writes, with the rows of that source left exactly as they were.
C37_SourceNamesAreKeys ==
    /\ [](\A s \in SourceNames :
            /\ Cardinality(RowsOf(BuddyView, s).meta) <= 1
            /\ \A f \in FileNames :
                  Cardinality({x \in RowsOf(BuddyView, s).files : x.file_name = f}) <= 1
            /\ (RowsOf(BuddyView, s).files # {} \/ RowsOf(BuddyView, s).headwords # {}) =>
                  RowsOf(BuddyView, s).meta # {})
    /\ [][\A s \in SourceNames, data \in TableDocs :
            (/\ direct_insert_data(s, data)
             /\ can_execute(con[TheBuddy])
             /\ RowsOf(BuddyView, s).meta # {}) =>
                /\ raised'[Writer] # "none"
                /\ \A any \in SourceNames : RowsOf(BuddyView, any)' = RowsOf(BuddyView, any)]_vars

\* C37 witness: insert_data for a name that is present has failed on the key
\* of meta, and the rows of both sources are there.
C37_Witness ==
    /\ raised[Writer] = "IntegrityError"
    /\ can_execute(con[TheBuddy])
    /\ \A s \in SourceNames : is_source_cached(BuddyView, s)

\* C39: remove_data(s) leaves the meta, headwords and files rows of every
\* other source, the pitch accent rows and the version rows as they were.
C39_RemovalTouchesOneSource ==
    [][\A s \in SourceNames :
          remove_data_call(s) =>
              /\ \A other \in SourceNames \ {s} :
                    /\ ContentOf(BuddyView, other)' = ContentOf(BuddyView, other)
                    /\ is_source_cached(BuddyView, other)' = is_source_cached(BuddyView, other)
                    /\ distinct_file_count(BuddyView, <<other>>)' = distinct_file_count(BuddyView, <<other>>)
                    /\ distinct_headword_count(BuddyView, <<other>>)' = distinct_headword_count(BuddyView, <<other>>)
              /\ BuddyView.pitch_accents_formatted' = BuddyView.pitch_accents_formatted
              /\ BuddyView.version' = BuddyView.version
              /\ ContentOf(BuddyView, s)' = NoRows]_vars

\* C39 witness: remove_data has deleted the rows of A, which are gone, while
\* the rows of B, a pitch accent row and a version row are there.
C39_Witness ==
    /\ pre[Writer].meta # {}
    /\ \A m \in pre[Writer].meta : m.source_name = "A"
    /\ RowsOf(BuddyView, "A") = NoRows
    /\ is_source_cached(BuddyView, "B")
    /\ BuddyView.pitch_accents_formatted # <<>>
    /\ BuddyView.version # {}

\* C40: every headwords row (s, h, f) has a files row (s, f) and a meta row
\* of s, so that get_file_info finds a row for every file a search returns.
C40_EveryHeadwordHasItsFile ==
    \A r \in BuddyView.headwords :
        /\ \E f \in BuddyView.files :
              f.source_name = r.source_name /\ f.file_name = r.file_name
        /\ \E m \in BuddyView.meta : m.source_name = r.source_name

\* ---------------------------------------------------------------------------
\* Forvo provider: audio_manager/forvo_client.py
\* ---------------------------------------------------------------------------

\* Text is a sequence of character codes: 65..90 are the capital letters,
\* 97..122 the small ones
Japan == <<74>>
japan == <<106>>
Korea == <<75>>

\* country of a pronunciation whose page entry names none, and of every
\* pronunciation when find_pronunciations does not look for it
None == <<>>

\* str.lower
lower(text) == [i \in DOMAIN text |-> IF text[i] \in 65..90 THEN text[i] + 32 ELSE text[i]]

\* what list.index stands in for sys.maxsize: greater than every index
maxsize == 2147483647

\* ForvoConfig(preferred_usernames=..., preferred_countries=..., retry_attempts=...)
\* after __post_init__; show_gender and show_country keep their defaults
ForvoConfig(preferred_usernames, preferred_countries, retry_attempts) ==
    [preferred_usernames |-> preferred_usernames,
     preferred_countries |-> [i \in DOMAIN preferred_countries |-> lower(preferred_countries[i])],
     show_country |-> FALSE,
     retry_attempts |-> retry_attempts]

\* the lists a user can write into the configuration
WrittenUsernames == {<<>>, <<"u1">>, <<"u2", "u1">>}
WrittenCountries == {<<>>, <<Japan>>, <<japan>>, <<Korea, Japan>>}

\* what the server can answer to one request: no answer in time, a transport
\* error other than a timeout, or a status
ForvoResponses == {"timeout", "error", "200", "404", "503"}

\* create_session(retry_attempts): the Retry mounted on the session
create_session(retry_attempts) ==
    [total |-> clamp(2, retry_attempts, 33),
     status_forcelist |-> {"403", "429", "500", "502", "503", "504"}]

\* ForvoClient._http_get, as far as the request just answered takes it, `sent`
\* requests after its start. The session repeats a GET that met a connection
\* or read error or a status of status_forcelist while fewer than `total`
\* requests were repeats, and then raises an OSError; every other status is
\* handed back, and _http_get raises on each but 200.
http_get(sent, retry_attempts, resp) ==
    LET retry_strategy == create_session(retry_attempts)
        again == resp \in {"timeout", "error"} \cup retry_strategy.status_forcelist
    IN  CASE again /\ sent < retry_strategy.total -> "running"
          [] again -> "ForvoClientException"
          [] resp # "200" -> "ForvoClientException"
          [] OTHER -> "response"

\* the same answer, as the fetch pipeline's request sees it
AsResponse(resp) ==
    CASE resp \in {"timeout", "error"} -> resp
      [] resp = "200" -> "ok"
      [] OTHER -> "status"

\* a page entry: 'Pronunciation by <username> (<gender> from <country>)'
Pronunciation(username, country) == [username |-> username, country |-> country]

PageEntries ==
    {Pronunciation("u1", Japan), Pronunciation("u2", Korea),
     Pronunciation("u3", Japan), Pronunciation("u3", japan)}

MaxPage == 3

Pages == UNION {[1..n -> PageEntries] : n \in 0..MaxPage}

\* ForvoClient.find_pronunciations
find_pronunciations(forvo_config, results) ==
    [i \in DOMAIN results |->
        Pronunciation(results[i].username,
                      IF forvo_config.show_country \/ forvo_config.preferred_countries # <<>>
                      THEN results[i].country ELSE None)]

\* list.index(value), sys.maxsize on ValueError
index(list, value) ==
    IF \E i \in DOMAIN list : list[i] = value
    THEN (CHOOSE i \in DOMAIN list :
             list[i] = value /\ \A j \in 1..(i - 1) : list[j] # value) - 1
    ELSE maxsize

\* sort_key of sort_pronunciations: (username_key, country_key)
sort_key(forvo_config, pronunciation) ==
    <<index(forvo_config.preferred_usernames, pronunciation.username),
      index(forvo_config.preferred_countries, pronunciation.country)>>

\* tuple comparison
KeyLess(a, b) == a[1] < b[1] \/ (a[1] = b[1] /\ a[2] < b[2])

\* sorted(pronunciations, key=sort_key): stable
RECURSIVE sort_pronunciations(_, _)
sort_pronunciations(forvo_config, pronunciations) ==
    IF pronunciations = <<>> THEN <<>>
    ELSE LET n == Len(pronunciations)
             last == pronunciations[n]
             front == sort_pronunciations(forvo_config, SubSeq(pronunciations, 1, n - 1))
             \* `last` goes behind the entries that are not greater than it,
             \* a prefix of the sorted front
             at == Cardinality({j \in 1..Len(front) :
                      ~KeyLess(sort_key(forvo_config, last), sort_key(forvo_config, front[j]))})
         IN  SubSeq(front, 1, at) \o <<last>> \o SubSeq(front, at + 1, Len(front))

\* a ForvoClient and a call of word() or search() as it is entered; `written`
\* keeps the preferred_countries argument, `pipeline` is get_with_retry of the
\* fetch pipeline under the same attempt count, given the same answers
NewForvo(usernames, countries, retry_attempts, is_search, word) ==
    [pc |-> "call", is_search |-> is_search, word |-> word,
     config |-> ForvoConfig(usernames, countries, retry_attempts),
     written |-> countries,
     sent |-> 0, last |-> "none", found |-> <<>>, result |-> <<>>,
     pipeline |-> [sent |-> 0, result |-> "running"]]

\* ForvoClient.word / ForvoClient.search up to the request: a blank word
\* returns [] and sends nothing
forvo_call ==
    /\ fetch.pc = "call"
    /\ fetch' = IF fetch.word = "" THEN [fetch EXCEPT !.pc = "returned"]
                ELSE [fetch EXCEPT !.pc = "http_get"]
    /\ UNCHANGED <<cacheVars, config, audio_sources, op, log, search>>

\* one request of self._session.get inside _http_get and its answer
session_get(resp) ==
    /\ fetch.pc = "http_get"
    /\ LET got == http_get(fetch.sent, fetch.config.retry_attempts, resp)
           there == fetch.pipeline
           other == download(there.sent, fetch.config.retry_attempts, AsResponse(resp))
       IN  fetch' = [fetch EXCEPT
               !.sent = @ + 1,
               !.last = resp,
               !.pc = CASE got = "running" -> "http_get"
                        [] got = "response" -> "response"
                        [] OTHER -> "raised",
               !.pipeline = IF there.result = "running"
                            THEN [sent |-> there.sent + 1, result |-> other]
                            ELSE there]
    /\ UNCHANGED <<cacheVars, config, audio_sources, op, log, search>>

\* ForvoClient.word from the response on: the entries of the language
\* container, in page order, sorted if a preference is configured
word_return(results) ==
    /\ fetch.pc = "response"
    /\ ~fetch.is_search
    /\ LET pronunciations == find_pronunciations(fetch.config, results)
       IN  fetch' = [fetch EXCEPT
               !.pc = "returned",
               !.found = pronunciations,
               !.result = IF fetch.config.preferred_usernames # <<>>
                             \/ fetch.config.preferred_countries # <<>>
                          THEN sort_pronunciations(fetch.config, pronunciations)
                          ELSE pronunciations]
    /\ UNCHANGED <<cacheVars, config, audio_sources, op, log, search>>

\* ForvoClient.search from the response on: the play buttons in page order,
\* without usernames or countries
search_return(results) ==
    /\ fetch.pc = "response"
    /\ fetch.is_search
    /\ LET plays == [i \in DOMAIN results |-> Pronunciation("", None)]
       IN  fetch' = [fetch EXCEPT !.pc = "returned", !.found = plays, !.result = plays]
    /\ UNCHANGED <<cacheVars, config, audio_sources, op, log, search>>

InitForvo ==
    /\ db = EmptyTables
    /\ con = [b \in Buddies |-> ClosedCon]
    /\ holds = [k \in Contexts |-> 0]
    /\ pc = [k \in Contexts |-> "out"]
    /\ arg = [k \in Contexts |-> NoArg]
    /\ raised = [k \in Contexts |-> "none"]
    /\ pre = [k \in Contexts |-> NoRows]
    /\ config = <<>>
    /\ audio_sources = <<>>
    /\ op = NoOp
    /\ log = NoLog
    /\ search = NoSearch
    /\ \E usernames \in WrittenUsernames, countries \in WrittenCountries,
          retry_attempts \in Attempts, is_search \in BOOLEAN, word \in {"", "w"} :
          fetch = NewForvo(usernames, countries, retry_attempts, is_search, word)

NextForvo ==
    \/ forvo_call
    \/ \E resp \in ForvoResponses : session_get(resp)
    \/ \E results \in Pages : word_return(results)
    \/ \E results \in Pages : search_return(results)

SpecForvo == InitForvo /\ [][NextForvo]_vars

\* the call of word() or search() has sent a request
ForvoRequested == fetch.pc \in {"http_get", "response", "returned", "raised"} /\ fetch.sent > 0

\* C36: word() and search() retry as the fetch pipeline's single request
\* does: given the same attempt count and the same answers, the Forvo call
\* has sent as many requests as get_with_retry has, goes on to a further
\* request exactly when get_with_retry does, which is only after a timeout,
\* and has failed as soon as an answer was a transport error other than a
\* timeout or a status other than 200.
C36_ForvoRetriesAsFetchPipeline ==
    ForvoRequested =>
        /\ fetch.sent = fetch.pipeline.sent
        /\ (fetch.pc = "http_get") <=> (fetch.pipeline.result = "running")
        /\ fetch.pc = "http_get" => fetch.last = "timeout"
        /\ fetch.last \in {"error", "404", "503"} => fetch.pc = "raised"

\* the Forvo session sends up to clamp(2, N, 33) + 1 requests, and repeats a
\* request after a timeout, another transport error or a status of the
\* force list alike
C36_ForvoSessionPolicy ==
    ForvoRequested =>
        /\ fetch.sent <= clamp(2, fetch.config.retry_attempts, 33) + 1
        /\ fetch.pc = "http_get" =>
              /\ fetch.last \in {"timeout", "error", "503"}
              /\ fetch.sent <= clamp(2, fetch.config.retry_attempts, 33)
        /\ fetch.last = "404" => fetch.pc = "raised"
        /\ fetch.last = "200" => fetch.pc \in {"response", "returned"}

\* a third request goes out after an error answer and a 503 under an attempt
\* count of 1, where the pipeline sent one request
C36_ForvoRepeatsAfterError ==
    /\ fetch.pc = "http_get"
    /\ fetch.config.retry_attempts = 1
    /\ fetch.sent = 2
    /\ fetch.last = "503"
    /\ fetch.pipeline = [sent |-> 1, result |-> "AudioManagerException"]

\* rank of a pronunciation by the preferred_countries the user wrote
WrittenKey(pronunciation) ==
    <<index(fetch.config.preferred_usernames, pronunciation.username),
      index(fetch.written, pronunciation.country)>>

\* word() has returned the pronunciations of a page
WordReturned == fetch.pc = "returned" /\ ~fetch.is_search /\ fetch.word # ""

\* how often an entry stands in a list
CountIn(list, entry) == Cardinality({i \in DOMAIN list : list[i] = entry})

\* the entries of the list that have the given rank, in list order
OfRank(list, rank) == SelectSeq(list, LAMBDA entry : WrittenKey(entry) = rank)

\* C38: what word() returns when a preference is configured is a
\* permutation of the pronunciations found, ordered by the index of the
\* username in preferred_usernames and then by the index of the country in
\* preferred_countries as the user wrote them, unlisted ones last, and
\* pronunciations of equal rank stand in page order.
C38_SortedByWrittenPreferences ==
    WordReturned /\ (fetch.config.preferred_usernames # <<>> \/ fetch.written # <<>>) =>
        /\ Len(fetch.result) = Len(fetch.found)
        /\ \A i \in DOMAIN fetch.found :
              CountIn(fetch.result, fetch.found[i]) = CountIn(fetch.found, fetch.found[i])
        /\ \A i, j \in DOMAIN fetch.result :
              i < j => ~KeyLess(WrittenKey(fetch.result[j]), WrittenKey(fetch.result[i]))
        /\ \A i \in DOMAIN fetch.found :
              OfRank(fetch.result, WrittenKey(fetch.found[i]))
                 = OfRank(fetch.found, WrittenKey(fetch.found[i]))

\* the same with the rank sort_pronunciations computes: permutation, order
\* by sort_key, page order among equal keys
C38_StableSortBySortKey ==
    WordReturned /\ (fetch.config.preferred_usernames # <<>> \/ fetch.written # <<>>) =>
        /\ Len(fetch.result) = Len(fetch.found)
        /\ \A i \in DOMAIN fetch.found :
              CountIn(fetch.result, fetch.found[i]) = CountIn(fetch.found, fetch.found[i])
        /\ \A i, j \in DOMAIN fetch.result :
              i < j => ~KeyLess(sort_key(fetch.config, fetch.result[j]),
                                sort_key(fetch.config, fetch.result[i]))
        /\ \A i \in DOMAIN fetch.found :
              LET same(entry) == sort_key(fetch.config, entry)
                                    = sort_key(fetch.config, fetch.found[i])
              IN  SelectSeq(fetch.result, same) = SelectSeq(fetch.found, same)

\* two pronunciations by unlisted users, the preferred country written with
\* its capital letter: the one from that country stays behind the other
C38_PreferredCountryIgnored ==
    /\ WordReturned
    /\ fetch.written = <<Japan>>
    /\ fetch.result = <<Pronunciation("u2", Korea), Pronunciation("u3", Japan)>>

====
